---- MODULE Spec2Model ----
(***************************************************************************)
(* Linksy backend, identity federation core: the users table, the Keycloak *)
(* identity provider as seen through keycloak_client.py, and the request   *)
(* handlers register / get_current_user / update_user / login as state     *)
(* machines whose steps are the awaits of the Python code (every database  *)
(* statement, commit and identity-provider call is one step, so concurrent *)
(* requests interleave exactly there).                                     *)
(*                                                                         *)
(* Text values are sequences of one-character strings, so that lower(),    *)
(* replace() and f-string concatenation are computed, not assumed.         *)
(* None and "" (both falsy in Python) are the empty sequence; an optional  *)
(* timestamp is <<>> or <<t>>.                                             *)
(***************************************************************************)
EXTENDS Integers, Sequences, FiniteSets, TLC

\* ---------------------------------------------------------------- bounds
MaxUsers == 2
MaxIdpUsers == 2
MaxTicks == 2
MaxPosts == 2

Procs == {"r1", "r2"}

None == <<>>

\* ------------------------------------------------------ program constants
\* auth/service.py:122  (datetime.utcnow() - last_synced_at).total_seconds() > 86400
SYNC_TTL == 86400
\* One tick of the model clock is one TTL: an age of one tick is exactly the
\* boundary (not stale, the test is strict), two ticks is stale.
TickSeconds == SYNC_TTL * 1

\* auth/controller.py:148: timedelta(minutes=30), the lifetime of a token
\* minted by the legacy login
LOGIN_EXPIRE_MINUTES == 30

\* ------------------------------------------------------------ text helpers
UpperChars == <<"A", "B", "C">>
LowerChars == <<"a", "b", "c">>

\* str.lower() on one character
LowerChar(c) ==
    IF \E i \in 1..Len(UpperChars) : UpperChars[i] = c
    THEN LowerChars[CHOOSE i \in 1..Len(UpperChars) : UpperChars[i] = c]
    ELSE c

\* str.lower()
Lower(s) == [i \in 1..Len(s) |-> LowerChar(s[i])]

\* str.upper() on one character
UpperChar(c) ==
    IF \E i \in 1..Len(LowerChars) : LowerChars[i] = c
    THEN UpperChars[CHOOSE i \in 1..Len(LowerChars) : LowerChars[i] = c]
    ELSE c

\* str.capitalize(): the first character upper-cased, the rest lower-cased
Capitalize(s) ==
    IF s = <<>> THEN <<>> ELSE <<UpperChar(Head(s))>> \o Lower(Tail(s))

\* str.replace(' ', '.')
ReplaceSpaces(s) == [i \in 1..Len(s) |-> IF s[i] = " " THEN "." ELSE s[i]]

Digits == <<"0", "1", "2", "3", "4", "5", "6", "7", "8", "9">>

\* str(counter) of the f-string f"{base_username}{counter}"
RECURSIVE Dec(_)
Dec(n) == IF n < 10 THEN <<Digits[n + 1]>>
          ELSE Dec(n \div 10) \o <<Digits[(n % 10) + 1]>>

\* auth/controller.py:27
BaseUsernameMutNoLower(first, last) ==
    ReplaceSpaces(first) \o <<".">> \o ReplaceSpaces(last)

BaseUsername(first, last) ==
    ReplaceSpaces(Lower(first)) \o <<".">> \o ReplaceSpaces(Lower(last))

\* auth/controller.py:37  f"{base_username}{counter}"
NextCandidate(base, counter) == base \o Dec(counter)

\* f"{username}@keycloak.local" (auth/service.py:103)
PlaceholderEmail(username) == username \o <<"@keycloak.local">>

\* str.capitalize() is not needed by any state the model keeps.

\* bcrypt hash of a password: an opaque non-empty value
Hash(pw) == <<"$2b$">> \o pw

\* whether a stored password is a bcrypt hash ("" is not)
IsBcryptHash(hashed) == Len(hashed) > 0 /\ hashed[1] = "$2b$"

\* auth/service.py:35-39 verify_password: bcrypt.checkpw returns whether the
\* password hashes to the stored hash, and raises ValueError (invalid salt)
\* for a stored value that is no bcrypt hash
VerifyPasswordMutEmptyMatches(plain_password, hashed_password) ==
    IF ~IsBcryptHash(hashed_password)
    THEN (IF plain_password = hashed_password THEN "true" ELSE "false")
    ELSE IF hashed_password = Hash(plain_password) THEN "true" ELSE "false"

VerifyPassword(plain_password, hashed_password) ==
    IF ~IsBcryptHash(hashed_password) THEN "raise"
    ELSE IF hashed_password = Hash(plain_password) THEN "true" ELSE "false"

\* ------------------------------------------------------------ input sets
FirstNames == {<<"A", " ", "b">>}
LastNames == {<<"C">>}
RegEmails == {<<"x">>, <<"y">>}
Passwords == {<<"p">>}
TokenNames == {<<"a", ".", "b", ".", "c">>, <<"g">>}
TokenEmails == {None, <<"x">>}
\* the passwords a client presents to verify_password
CandidatePasswords == Passwords \cup {None}
\* the new passwords of a change-password request
NewPasswords == {<<"p">>, <<"q">>}

IdpIds == 1..MaxIdpUsers
\* the Keycloak UUID of IdP user i
KcId(i) == <<i>>

\* ------------------------------------------------------------------ state
VARIABLES
    mode,     \* USE_KEYCLOAK: "federated" (true) or "legacy" (false)
    now,      \* the clock, in ticks of TickSeconds
    users,    \* the users table: a sequence of rows, a row's id is its index
    idp,      \* the Keycloak realm's users, by IdP id
    pc,       \* per request slot: the await the request is suspended at
    loc,      \* per request slot: the handler's local variables
    regLog,   \* the 201 responses register has sent, in order
    posts,    \* the posts table: a sequence of rows, a row's id is its index
    likes,    \* the likes table: its rows, kept in (post_id, user_id) order
    objects   \* the object names held by the MinIO bucket

vars == <<mode, now, users, idp, pc, loc, regLog, posts, likes, objects>>

\* datetime.utcnow(), in seconds
UtcNow == now * TickSeconds

\* entities/user.py: a row of the users table (id is the index in users)
Row(username, email, password, kc, synced) ==
    [username |-> username, email |-> email, password |-> password,
     keycloak_user_id |-> kc, last_synced_at |-> synced,
     profile_picture_url |-> None]

\* an ORM object: the row together with its primary key (0: no object)
Obj(id, row) ==
    [id |-> id, username |-> row.username, email |-> row.email,
     password |-> row.password, keycloak_user_id |-> row.keycloak_user_id,
     last_synced_at |-> row.last_synced_at,
     profile_picture_url |-> row.profile_picture_url]

NoObj == Obj(0, Row(None, None, None, None, None))

\* ------------------------------------------------------- the users table
Ids(tbl) == 1..Len(tbl)

\* result.scalar_one_or_none() of select(User).where(...): 0 is None.  The
\* unique indexes leave at most one match.
OneOrNone(S) == IF S = {} THEN 0 ELSE CHOOSE i \in S : TRUE

SelectByUsername(tbl, u) == OneOrNone({i \in Ids(tbl) : tbl[i].username = u})
SelectByEmail(tbl, e) == OneOrNone({i \in Ids(tbl) : tbl[i].email = e})
\* SQL: NULL equals nothing
SelectByKc(tbl, k) ==
    OneOrNone({i \in Ids(tbl) : tbl[i].keycloak_user_id # None
                                 /\ tbl[i].keycloak_user_id = k})
SelectById(tbl, id) == IF id \in Ids(tbl) THEN id ELSE 0

\* entities/user.py:10,11,15 and alembic 002:30: unique username, unique
\* email, unique keycloak_user_id (NULLs exempt)
UniqueOkMutNoConstraint(tbl) == TRUE

UniqueOkMutNoEmailIndex(tbl) ==
    \A i, j \in Ids(tbl) :
        i # j =>
            /\ tbl[i].username # tbl[j].username
            /\ (tbl[i].keycloak_user_id # None
                    => tbl[i].keycloak_user_id # tbl[j].keycloak_user_id)

UniqueOk(tbl) ==
    \A i, j \in Ids(tbl) :
        i # j =>
            /\ tbl[i].username # tbl[j].username
            /\ tbl[i].email # tbl[j].email
            /\ (tbl[i].keycloak_user_id # None
                    => tbl[i].keycloak_user_id # tbl[j].keycloak_user_id)

\* db.add(user); await db.commit(): the table after the INSERT
Inserted(tbl, row) == Append(tbl, row)

\* await db.commit() of a modified object: the UPDATE sets only the columns
\* whose value differs from the value loaded (orig), on the row as it is now
Updated(tbl, orig, o) ==
    [tbl EXCEPT ![o.id] =
        [c \in DOMAIN tbl[o.id] |->
            IF o[c] # orig[c] THEN o[c] ELSE tbl[o.id][c]]]

\* ------------------------------------------------------------ the IdP
\* an IdP user: phase is "absent", "created" (phase 1 done), "credentialed"
\* (password set) or "ready" (enabled, requiredActions = [])
IdpUser(phase, username) == [phase |-> phase, username |-> username]
NoIdpUser == IdpUser("absent", None)

IdpIssued(s) == {i \in IdpIds : s[i].phase # "absent"}
\* the users a password grant can succeed for, so the subs tokens carry
IdpReady(s) == {i \in IdpIds : s[i].phase = "ready"}
IdpFree(s) == IdpIds \ IdpIssued(s)

\* Keycloak's user search: the users whose username contains the string
Contains(hay, needle) ==
    \E k \in 0..(Len(hay) - Len(needle)) :
        SubSeq(hay, k + 1, k + Len(needle)) = needle

IdpSearch(s, username) ==
    {i \in IdpIssued(s) : Contains(s[i].username, username)}

IdpHasUsername(s, username) ==
    \E i \in IdpIssued(s) : s[i].username = username

\* the id Keycloak gives the next user it creates
IdpNewId(s) == CHOOSE i \in IdpFree(s) : \A j \in IdpFree(s) : i <= j

\* PUT .../users/{id}/reset-password accepted
IdpSetPassword(s, id) ==
    [s EXCEPT ![id].phase = IF @ = "created" THEN "credentialed" ELSE @]

\* PUT .../users/{id} with enabled = True, requiredActions = [] accepted
IdpFinalize(s, id) == [s EXCEPT ![id].phase = "ready"]

\* Where create_user_in_keycloak's call sequence can break
ProvisionOutcomes ==
    {"admin_token", "create", "search", "password", "get_exception",
     "get_status", "put_exception", "put_status", "ok"}

\* Whether the IdP can answer the calls up to the break this way: the create
\* request is refused (409) for a username the realm already has
ProvisionPossible(s, username, out, location, pick) ==
    /\ out \notin {"admin_token", "create"}
          => IdpFree(s) # {} /\ ~IdpHasUsername(s, username)
    /\ out = "search" => ~location
    /\ (out \notin {"admin_token", "create"} /\ ~location /\ out # "search")
          => pick \in IdpSearch([s EXCEPT ![IdpNewId(s)] =
                                    IdpUser("created", username)], username)
    /\ (out \in {"admin_token", "create", "search"} \/ location) => pick = 0

\* keycloak_client.py:86-229 create_user_in_keycloak: the IdP after the call,
\* whether the call raised, and the user id it returned
CreateUserInKeycloak(s, username, out, location, pick) ==
    LET new == IdpNewId(s)
        \* :143-144 POST .../users, raise_for_status()
        s1 == [s EXCEPT ![new] = IdpUser("created", username)]
        \* :147-162 Location header, else users[0] of the username search
        user_id == IF location THEN new ELSE pick
        \* :174-179 PUT reset-password, status not in [200, 204] raises
        s2 == IdpSetPassword(s1, user_id)
        \* :185-219 GET the user, PUT it back; a bad status is only logged
        s3 == IdpFinalize(s2, user_id)
        Raise(st) == [idp |-> st, raised |-> TRUE, user_id |-> None]
        Return(st) == [idp |-> st, raised |-> FALSE, user_id |-> KcId(user_id)]
    IN  CASE out \in {"admin_token", "create"} -> Raise(s)
          [] out = "search" -> Raise(s1)
          [] out = "password" -> Raise(s1)
          \* requests.get / requests.put raising (transport error)
          [] out \in {"get_exception", "put_exception"} -> Raise(s2)
          \* :213-219 logging.warning only, then :225 return user_id
          [] out \in {"get_status", "put_status"} -> Return(s2)
          [] OTHER -> Return(s3)

\* keycloak_client.py:123-141 user_data_no_password, the body of the create
\* request (the custom attributes of :127-131 are left out)
CreateBodyMutWithCredentials(username, email, password, first_name, last_name) ==
    [username |-> username, email |-> email,
     firstName |-> IF first_name # None THEN first_name
                   ELSE Capitalize(username),
     lastName |-> IF last_name # None THEN last_name
                  ELSE <<"U", "s", "e", "r">>,
     enabled |-> TRUE, emailVerified |-> FALSE,
     credentials |-> <<[type |-> "password", value |-> password,
                        temporary |-> FALSE]>>]

CreateBody(username, email, password, first_name, last_name) ==
    [username |-> username, email |-> email,
     firstName |-> IF first_name # None THEN first_name
                   ELSE Capitalize(username),
     lastName |-> IF last_name # None THEN last_name
                  ELSE <<"U", "s", "e", "r">>,
     enabled |-> TRUE, emailVerified |-> FALSE]

\* keycloak_client.py:167-171 password_data, the body of reset-password
PasswordBody(password) ==
    [type |-> "password", value |-> password, temporary |-> FALSE]

\* keycloak_client.py:185-187: the representations GET .../users/{id} can
\* answer with: the user as the create request described it, or as a realm
\* configuration leaves a new user (names dropped, a required action set)
Representations(body) ==
    {[username |-> body.username, firstName |-> body.firstName,
      lastName |-> body.lastName, enabled |-> TRUE,
      requiredActions |-> <<>>],
     [username |-> body.username, firstName |-> None, lastName |-> None,
      enabled |-> FALSE, requiredActions |-> <<"UPDATE_PROFILE">>]}

\* keycloak_client.py:191-206 update_data, the body of the closing PUT
UpdateBody(user_data_current, username) ==
    [user_data_current EXCEPT
        !.firstName = IF @ = None THEN Capitalize(username) ELSE @,
        !.lastName = IF @ = None THEN <<"U", "s", "e", "r">> ELSE @,
        !.enabled = TRUE,
        !.requiredActions = <<>>]

\* keycloak_client.py:98-219: the requests create_user_in_keycloak sends, in
\* the order it sends them, up to the break out; ok says whether the request
\* was answered with success (for GET: with 200)
CreateUserCalls(s, l, out, location, pick, current) ==
    LET body == CreateBody(l.username, l.email, l.password, l.first, l.last)
        new == IF IdpFree(s) # {} THEN IdpNewId(s) ELSE 0
        user_id == IF location THEN new ELSE pick
        Call(name, id, ok, b) ==
            [call |-> name, id |-> id, ok |-> ok, body |-> b]
        \* :107 the admin token from the master realm
        token == Call("token", 0, out # "admin_token", <<>>)
        \* :143-150 POST .../users and its Location header
        create == Call("create", IF out = "create" THEN 0 ELSE new,
                       out # "create",
                       [json |-> body, location |-> location])
        \* :153-158 GET .../users?username=
        search == Call("search", pick, out # "search",
                       [username |-> l.username])
        \* :166-174 PUT .../users/{id}/reset-password
        password == Call("reset-password", user_id, out # "password",
                         PasswordBody(l.password))
        \* :184-185 GET .../users/{id}
        get == Call("get", user_id,
                    out \notin {"get_exception", "get_status"},
                    IF out \in {"get_exception", "get_status"} THEN <<>>
                    ELSE current)
        \* :209-210 PUT .../users/{id}
        put == Call("put", user_id,
                    out \notin {"put_exception", "put_status"},
                    UpdateBody(current, l.username))
        upToCreate == <<token, create>>
        upToId == IF location THEN upToCreate ELSE upToCreate \o <<search>>
    IN  CASE out = "admin_token" -> <<token>>
          [] out = "create" -> upToCreate
          [] out = "search" -> upToId
          [] out = "password" -> upToId \o <<password>>
          [] out \in {"get_exception", "get_status"} ->
                upToId \o <<password, get>>
          [] OTHER -> upToId \o <<password, get, put>>

\* ------------------------------------------------------ request locals
\* token_info as verify_keycloak_token returns it (keycloak_client.py:75-80)
TokenInfo(sub, name, email, active) ==
    [keycloak_user_id |-> sub, preferred_username |-> name,
     email |-> email, active |-> active]
NoToken == TokenInfo(None, None, None, FALSE)

\* the payload of a legacy JWT with the key that signed it: exp in seconds,
\* id 0 for a payload without an id
Jwt(sub, id, exp, key) == [sub |-> sub, id |-> id, exp |-> exp, key |-> key]
NoJwt == Jwt(None, 0, 0, "")

Idle ==
    [op |-> "none",
     first |-> None, last |-> None, email |-> None, password |-> None,
     username |-> None, counter |-> 0, uid |-> 0,
     tok |-> NoToken, user |-> NoObj, orig |-> NoObj, kcid |-> None,
     access_token |-> None, issued |-> None, jwt |-> NoJwt,
     new_password |-> None, new_password_confirm |-> None,
     path |-> "", cause |-> "", status |-> 0, detail |-> "",
     calls |-> <<>>,
     post_id |-> 0, image |-> FALSE, image_url |-> None,
     existing_like |-> FALSE, is_liked |-> FALSE, like_count |-> 0,
     dbRead |-> FALSE, dbWrite |-> FALSE, idpCall |-> FALSE]

Federated == mode = "federated"

Init ==
    /\ mode \in {"legacy", "federated"}
    /\ now = 0
    /\ users = <<>>
    \* the realm starts with one user provisioned outside this backend
    /\ idp = [i \in IdpIds |-> IF i = 1 THEN IdpUser("ready", <<"g">>)
                                ELSE NoIdpUser]
    /\ pc = [p \in Procs |-> "idle"]
    /\ loc = [p \in Procs |-> Idle]
    /\ regLog = <<>>
    /\ posts = <<>>
    /\ likes = <<>>
    /\ objects = {}

\* The names the realm's externally provisioned user can have: one no
\* registration asks for, and one that contains a registration's username
ExternalNames == {<<"g">>, <<"a", ".", "b", ".", "c", ".", "d">>}

\* the state after construction, over the realms the backend can be
\* deployed against
InitRealm ==
    /\ mode \in {"legacy", "federated"}
    /\ now = 0
    /\ users = <<>>
    /\ \E name \in ExternalNames :
         idp = [i \in IdpIds |-> IF i = 1 THEN IdpUser("ready", name)
                                  ELSE NoIdpUser]
    /\ pc = [p \in Procs |-> "idle"]
    /\ loc = [p \in Procs |-> Idle]
    /\ regLog = <<>>
    /\ posts = <<>>
    /\ likes = <<>>
    /\ objects = {}

\* The rows first logins have left at time 0: one per Keycloak id, with the
\* username and the email (or the placeholder) of the token presented
LinkedRows ==
    {Row(name, IF email # None THEN email ELSE PlaceholderEmail(name),
         None, KcId(i), <<0>>) :
        i \in IdpIds, name \in TokenNames, email \in TokenEmails}

LinkedTables ==
    {tbl \in UNION {[1..n -> LinkedRows] : n \in 1..MaxUsers} :
        UniqueOk(tbl)}

\* A federated deployment in use: every realm user can log in and the
\* users table holds the rows of earlier first logins
InitLinked ==
    /\ mode = "federated"
    /\ now = 0
    /\ users \in LinkedTables
    /\ idp = [i \in IdpIds |->
                IdpUser("ready", IF i = 1 THEN <<"g">>
                                 ELSE <<"a", ".", "b", ".", "c">>)]
    /\ pc = [p \in Procs |-> "idle"]
    /\ loc = [p \in Procs |-> Idle]
    /\ regLog = <<>>
    /\ posts = <<>>
    /\ likes = <<>>
    /\ objects = {}

\* A federated deployment with two users, each linked by a first login, and
\* no post yet
InitContent ==
    /\ mode = "federated"
    /\ now = 0
    /\ users = <<Row(<<"g">>, <<"x">>, None, KcId(1), <<0>>),
                 Row(<<"a", ".", "b", ".", "c">>,
                     PlaceholderEmail(<<"a", ".", "b", ".", "c">>),
                     None, KcId(2), <<0>>)>>
    /\ idp = [i \in IdpIds |->
                IdpUser("ready", IF i = 1 THEN <<"g">>
                                 ELSE <<"a", ".", "b", ".", "c">>)]
    /\ pc = [p \in Procs |-> "idle"]
    /\ loc = [p \in Procs |-> Idle]
    /\ regLog = <<>>
    /\ posts = <<>>
    /\ likes = <<>>
    /\ objects = {}

\* the request ends with an HTTP error
Fail(p, status, detail) ==
    /\ pc' = [pc EXCEPT ![p] = "done"]
    /\ loc' = [loc EXCEPT ![p].status = status, ![p].detail = detail]

\* ---------------------------------------------------------------- register
\* auth/controller.py:17-31: POST /auth/register up to the first query
RegisterStart(p) ==
    /\ pc[p] = "idle"
    /\ \E first \in FirstNames, last \in LastNames,
          email \in RegEmails, pw \in Passwords :
            loc' = [loc EXCEPT ![p] =
                      [Idle EXCEPT !.op = "register", !.first = first,
                                   !.last = last, !.email = email,
                                   !.password = pw,
                                   !.username = BaseUsername(first, last),
                                   !.counter = 1]]
    /\ pc' = [pc EXCEPT ![p] = "reg_probe"]
    /\ UNCHANGED <<mode, now, users, idp, regLog, posts, likes, objects>>

\* auth/controller.py:32-38: one turn of the while True loop
RegisterProbe(p) ==
    /\ pc[p] = "reg_probe"
    /\ LET l == loc[p]
           existing_user == SelectByUsername(users, l.username)
       IN  IF existing_user # 0
           THEN /\ loc' = [loc EXCEPT
                            ![p].username =
                                NextCandidate(BaseUsername(l.first, l.last),
                                              l.counter),
                            ![p].counter = l.counter + 1,
                            ![p].dbRead = TRUE]
                /\ pc' = pc
           ELSE /\ loc' = [loc EXCEPT ![p].dbRead = TRUE]
                /\ pc' = [pc EXCEPT ![p] = "reg_email"]
    /\ UNCHANGED <<mode, now, users, idp, regLog, posts, likes, objects>>

\* auth/controller.py:41-43: whether a row already holds the email
EmailTakenMutNever(tbl, email) == FALSE

EmailTaken(tbl, email) == SelectByEmail(tbl, email) # 0

\* auth/controller.py:41-49: the email check, then the mode dispatch
RegisterEmailCheck(p) ==
    /\ pc[p] = "reg_email"
    /\ IF EmailTaken(users, loc[p].email)
       THEN /\ pc' = [pc EXCEPT ![p] = "done"]
            /\ loc' = [loc EXCEPT ![p].dbRead = TRUE,
                                  ![p].status = 400,
                                  ![p].detail = "Email already exists"]
       ELSE /\ loc' = [loc EXCEPT ![p].dbRead = TRUE]
            /\ pc' = [pc EXCEPT ![p] =
                        IF Federated THEN "reg_idp" ELSE "reg_commit"]
    /\ UNCHANGED <<mode, now, users, idp, regLog, posts, likes, objects>>

\* auth/controller.py:59-68 and 89-94: where register goes after the call of
\* create_user_in_keycloak: an exception ends the request in the except clause
AfterProvisionMutSwallowed(raised) == "reg_commit"

AfterProvision(raised) == IF raised THEN "done" ELSE "reg_commit"

\* auth/controller.py:53-68 and 89-94: the call of create_user_in_keycloak;
\* path records how the call ended
RegisterProvision(p) ==
    /\ pc[p] = "reg_idp"
    /\ \E out \in ProvisionOutcomes, location \in BOOLEAN,
          pick \in {0} \cup IdpIds,
          current \in Representations(CreateBody(loc[p].username,
                          loc[p].email, loc[p].password,
                          loc[p].first, loc[p].last)) :
        /\ ProvisionPossible(idp, loc[p].username, out, location, pick)
        /\ LET r == CreateUserInKeycloak(idp, loc[p].username, out,
                                          location, pick)
               next == AfterProvision(r.raised)
           IN  /\ idp' = r.idp
               /\ pc' = [pc EXCEPT ![p] = next]
               /\ loc' = [loc EXCEPT
                            ![p].idpCall = TRUE,
                            ![p].calls = CreateUserCalls(idp, loc[p], out,
                                             location, pick, current),
                            ![p].kcid = r.user_id,
                            ![p].path = IF r.raised THEN "idp_error"
                                        ELSE "idp_ok",
                            ![p].status = IF next = "done" THEN 500 ELSE 0,
                            ![p].detail = IF next = "done"
                                          THEN "Failed to create user"
                                          ELSE ""]
    /\ UNCHANGED <<mode, now, users, regLog, posts, likes, objects>>

\* auth/controller.py:73-79 (federated) and 99-103 (legacy): the User built
RegisterUserMutHashed(l) ==
    Row(l.username, l.email, Hash(l.password), l.kcid, <<UtcNow>>)

RegisterUser(l) ==
    IF Federated
    THEN Row(l.username, l.email, None, l.kcid, <<UtcNow>>)
    ELSE Row(l.username, l.email, Hash(l.password), None, None)

\* auth/controller.py:80-94 and 105-109: db.add, commit, refresh, respond.
\* A unique violation raises: caught at :89 in federated mode (500), and an
\* unhandled server error (500) in legacy mode.
RegisterCommit(p) ==
    /\ pc[p] = "reg_commit"
    /\ Len(users) < MaxUsers
    /\ LET create_user_model == RegisterUser(loc[p])
           tbl == Inserted(users, create_user_model)
           id == Len(tbl)
       IN  IF UniqueOk(tbl)
           THEN /\ users' = tbl
                /\ pc' = [pc EXCEPT ![p] = "done"]
                /\ loc' = [loc EXCEPT
                             ![p].user = Obj(id, create_user_model),
                             ![p].dbWrite = TRUE,
                             ![p].status = 201,
                             ![p].detail = "User created successfully"]
                /\ regLog' = Append(regLog,
                                [user_id |-> id,
                                 username |-> create_user_model.username,
                                 keycloak_user_id |-> loc[p].kcid])
           ELSE /\ pc' = [pc EXCEPT ![p] = "done"]
                /\ loc' = [loc EXCEPT ![p].status = 500,
                                      ![p].detail = "Failed to create user"]
                /\ UNCHANGED <<users, regLog>>
    /\ UNCHANGED <<mode, now, idp, posts, likes, objects>>

\* ------------------------------------------------------- get_current_user
\* auth/service.py:62-68: a request with a bearer token arrives
ResolveStart(p) ==
    /\ pc[p] = "idle"
    /\ Federated
    /\ loc' = [loc EXCEPT ![p] = [Idle EXCEPT !.op = "resolve"]]
    /\ pc' = [pc EXCEPT ![p] = "gcu_verify"]
    /\ UNCHANGED <<mode, now, users, idp, regLog, posts, likes, objects>>

\* What verify_keycloak_token (keycloak_client.py:55-83) can return for a
\* token: the claims of a user able to log in.  Userinfo is read from the
\* realm at the time of the call and a realm administrator can rename a
\* user, so preferred_username and email are not tied to the values the user
\* was created with; sub, preferred_username and email may be missing
TokenInfos ==
    {TokenInfo(KcId(i), name, email, active) :
        i \in IdpReady(idp), name \in TokenNames,
        email \in TokenEmails, active \in BOOLEAN}
    \cup {TokenInfo(None, name, None, TRUE) : name \in TokenNames}
    \cup {TokenInfo(KcId(i), None, None, TRUE) : i \in IdpReady(idp)}

\* auth/service.py:73-87: the checks on token_info, before any query
TokenRejectedMutIgnoresActive(token_info) ==
    token_info.preferred_username = None \/ token_info.keycloak_user_id = None

TokenRejectedMutIgnoresSub(token_info) ==
    ~token_info.active \/ token_info.preferred_username = None

TokenRejected(token_info) ==
    \/ ~token_info.active
    \/ token_info.preferred_username = None
    \/ token_info.keycloak_user_id = None

\* Why a call of the IdP raises: the IdP answered and refused (an invalid
\* token, a wrong password), or it could not be reached or answered 5xx
IdpFailures == {"refused", "unavailable"}

\* auth/service.py:156-161: except (JWTError, Exception) answers every
\* exception of the federated branch, whatever its cause, with the same 401
VerifyFailure(cause) ==
    [status |-> 401, detail |-> "Could not validate user."]

\* auth/service.py:72-87 and 156-161: verify_keycloak_token raises (invalid
\* token, IdP unreachable) or returns token_info
ResolveVerify(p) ==
    /\ pc[p] = "gcu_verify"
    /\ \/ /\ pc' = [pc EXCEPT ![p] = "done"]
          /\ \E cause \in IdpFailures :
               loc' = [loc EXCEPT ![p].idpCall = TRUE,
                                  ![p].path = "verify_raised",
                                  ![p].cause = cause,
                                  ![p].status = VerifyFailure(cause).status,
                                  ![p].detail = VerifyFailure(cause).detail]
       \/ \E token_info \in TokenInfos :
            IF TokenRejected(token_info)
            THEN /\ pc' = [pc EXCEPT ![p] = "done"]
                 /\ loc' = [loc EXCEPT ![p].idpCall = TRUE,
                                       ![p].tok = token_info,
                                       ![p].path = "rejected",
                                       ![p].status = 401,
                                       ![p].detail = "Could not validate user."]
            ELSE /\ pc' = [pc EXCEPT ![p] = "gcu_by_kc"]
                 /\ loc' = [loc EXCEPT ![p].idpCall = TRUE,
                                       ![p].tok = token_info]
    /\ UNCHANGED <<mode, now, users, idp, regLog, posts, likes, objects>>

\* auth/service.py:91-92: select(User).where(keycloak_user_id == ...)
ResolveByKc(p) ==
    /\ pc[p] = "gcu_by_kc"
    /\ LET id == SelectByKc(users, loc[p].tok.keycloak_user_id)
       IN  IF id # 0
           THEN /\ loc' = [loc EXCEPT ![p].dbRead = TRUE,
                                      ![p].path = "by_kc",
                                      ![p].orig = Obj(id, users[id]),
                                      ![p].user = Obj(id, users[id])]
                /\ pc' = [pc EXCEPT ![p] = "gcu_sync"]
           ELSE /\ loc' = [loc EXCEPT ![p].dbRead = TRUE]
                /\ pc' = [pc EXCEPT ![p] = "gcu_by_name"]
    /\ UNCHANGED <<mode, now, users, idp, regLog, posts, likes, objects>>

\* auth/service.py:94-97: the fallback select by username
ResolveByUsername(p) ==
    /\ pc[p] = "gcu_by_name"
    /\ LET id == SelectByUsername(users, loc[p].tok.preferred_username)
       IN  IF id # 0
           THEN /\ loc' = [loc EXCEPT ![p].path = "by_name",
                                      ![p].orig = Obj(id, users[id]),
                                      ![p].user = Obj(id, users[id])]
                /\ pc' = [pc EXCEPT ![p] = "gcu_sync"]
           ELSE /\ loc' = [loc EXCEPT ![p].path = "jit"]
                /\ pc' = [pc EXCEPT ![p] = "gcu_insert"]
    /\ UNCHANGED <<mode, now, users, idp, regLog, posts, likes, objects>>

\* auth/service.py:101-107: the User built on first login
JitUserMutHashedEmpty(token_info) ==
    Row(token_info.preferred_username,
        IF token_info.email # None THEN token_info.email
        ELSE PlaceholderEmail(token_info.preferred_username),
        Hash(None), token_info.keycloak_user_id, <<UtcNow>>)

JitUser(token_info) ==
    Row(token_info.preferred_username,
        IF token_info.email # None THEN token_info.email
        ELSE PlaceholderEmail(token_info.preferred_username),
        None, token_info.keycloak_user_id, <<UtcNow>>)

\* auth/service.py:99-111, 135 and 156-161: db.add, commit, refresh, return;
\* a unique violation raises and ends in the 401 of the except clause
ResolveInsert(p) ==
    /\ pc[p] = "gcu_insert"
    /\ Len(users) < MaxUsers
    /\ LET user == JitUser(loc[p].tok)
           tbl == Inserted(users, user)
       IN  IF UniqueOk(tbl)
           THEN /\ users' = tbl
                /\ pc' = [pc EXCEPT ![p] = "done"]
                /\ loc' = [loc EXCEPT ![p].user = Obj(Len(tbl), user),
                                      ![p].dbWrite = TRUE,
                                      ![p].status = 200]
           ELSE /\ Fail(p, 401, "Could not validate user.")
                /\ UNCHANGED users
    /\ UNCHANGED <<mode, now, idp, regLog, posts, likes, objects>>

\* auth/service.py:115-116: the Keycloak id is set only on a row without one
WithKeycloakIdMutOverwrite(user, token_info) ==
    [user EXCEPT !.keycloak_user_id = token_info.keycloak_user_id]

WithKeycloakId(user, token_info) ==
    IF user.keycloak_user_id = None
    THEN [user EXCEPT !.keycloak_user_id = token_info.keycloak_user_id]
    ELSE user

\* auth/service.py:120-125
ShouldSyncMutNoNullCheck(user, token_info) ==
    \/ /\ user.last_synced_at # None
       /\ UtcNow - user.last_synced_at[1] > SYNC_TTL
    \/ user.username # token_info.preferred_username
    \/ user.email # token_info.email

ShouldSyncMutNoNameCheck(user, token_info) ==
    \/ user.last_synced_at = None
    \/ UtcNow - user.last_synced_at[1] > SYNC_TTL
    \/ user.email # token_info.email

ShouldSyncMutNoTtl(user, token_info) ==
    \/ user.last_synced_at = None
    \/ user.username # token_info.preferred_username
    \/ user.email # token_info.email

ShouldSync(user, token_info) ==
    \/ user.last_synced_at = None
    \/ UtcNow - user.last_synced_at[1] > SYNC_TTL
    \/ user.username # token_info.preferred_username
    \/ user.email # token_info.email

\* auth/service.py:128-130: the values written back
SyncedMutKeepsSyncTime(user, token_info) ==
    [user EXCEPT !.username = token_info.preferred_username,
                 !.email = IF token_info.email # None THEN token_info.email
                           ELSE user.email]

SyncedMutResetsPassword(user, token_info) ==
    [user EXCEPT !.username = token_info.preferred_username,
                 !.email = IF token_info.email # None THEN token_info.email
                           ELSE user.email,
                 !.password = None,
                 !.last_synced_at = <<UtcNow>>]

Synced(user, token_info) ==
    [user EXCEPT !.username = token_info.preferred_username,
                 !.email = IF token_info.email # None THEN token_info.email
                           ELSE user.email,
                 !.last_synced_at = <<UtcNow>>]

\* auth/service.py:112-135 and 156-161: the branch of an existing row, on the
\* object loaded by one of the selects; commit and refresh only if should_sync
ResolveSync(p) ==
    /\ pc[p] = "gcu_sync"
    /\ LET l == loc[p]
           user1 == WithKeycloakId(l.user, l.tok)
       IN  IF ShouldSync(user1, l.tok)
           THEN LET user2 == Synced(user1, l.tok)
                    tbl == Updated(users, l.orig, user2)
                IN  IF UniqueOk(tbl)
                    THEN /\ users' = tbl
                         /\ pc' = [pc EXCEPT ![p] = "done"]
                         /\ loc' = [loc EXCEPT
                                      ![p].user = Obj(user2.id, tbl[user2.id]),
                                      ![p].dbWrite = TRUE,
                                      ![p].status = 200]
                    ELSE /\ Fail(p, 401, "Could not validate user.")
                         /\ UNCHANGED users
           ELSE /\ pc' = [pc EXCEPT ![p] = "done"]
                /\ loc' = [loc EXCEPT ![p].user = user1, ![p].status = 200]
                /\ UNCHANGED users
    /\ UNCHANGED <<mode, now, idp, regLog, posts, likes, objects>>

\* ------------------------------------------------------------ update_user
\* users/controller.py:44-50: PUT /users/me for an authenticated user
UpdateStart(p) ==
    /\ pc[p] = "idle"
    /\ \E uid \in Ids(users), username \in {None} \cup TokenNames,
          email \in {None} \cup RegEmails :
            loc' = [loc EXCEPT ![p] =
                      [Idle EXCEPT !.op = "update", !.uid = uid,
                                   !.username = username, !.email = email]]
    /\ pc' = [pc EXCEPT ![p] = "upd_load"]
    /\ UNCHANGED <<mode, now, users, idp, regLog, posts, likes, objects>>

\* where update_user goes next: the username check (users/service.py:68),
\* the email check (:80) or the commit (:91)
UpdateNext(l, user, from) ==
    IF from = "load" /\ l.username # None /\ l.username # user.username
    THEN "upd_name"
    ELSE IF l.email # None /\ l.email # user.email
    THEN "upd_email"
    ELSE "upd_commit"

\* users/service.py:65 (get_user_by_id, :9-17)
UpdateLoad(p) ==
    /\ pc[p] = "upd_load"
    /\ LET id == SelectById(users, loc[p].uid)
       IN  IF id = 0
           THEN /\ pc' = [pc EXCEPT ![p] = "done"]
                /\ loc' = [loc EXCEPT ![p].dbRead = TRUE, ![p].status = 404,
                                      ![p].detail = "User not found"]
           ELSE LET user == Obj(id, users[id])
                IN  /\ loc' = [loc EXCEPT ![p].dbRead = TRUE,
                                          ![p].orig = user, ![p].user = user]
                    /\ pc' = [pc EXCEPT ![p] =
                                UpdateNext(loc[p], user, "load")]
    /\ UNCHANGED <<mode, now, users, idp, regLog, posts, likes, objects>>

\* users/service.py:68-77
UpdateNameCheck(p) ==
    /\ pc[p] = "upd_name"
    /\ LET l == loc[p]
           existing_user == SelectByUsername(users, l.username)
       IN  IF existing_user # 0
           THEN Fail(p, 400, "Username already exists")
           ELSE /\ loc' = [loc EXCEPT ![p].user.username = l.username]
                /\ pc' = [pc EXCEPT ![p] = UpdateNext(l, l.user, "name")]
    /\ UNCHANGED <<mode, now, users, idp, regLog, posts, likes, objects>>

\* users/service.py:80-89
UpdateEmailCheck(p) ==
    /\ pc[p] = "upd_email"
    /\ LET l == loc[p]
           existing_user == SelectByEmail(users, l.email)
       IN  IF existing_user # 0
           THEN Fail(p, 400, "Email already exists")
           ELSE /\ loc' = [loc EXCEPT ![p].user.email = l.email]
                /\ pc' = [pc EXCEPT ![p] = "upd_commit"]
    /\ UNCHANGED <<mode, now, users, idp, regLog, posts, likes, objects>>

\* users/service.py:91-94: commit, refresh, return; a unique violation is an
\* unhandled server error
UpdateCommit(p) ==
    /\ pc[p] = "upd_commit"
    /\ LET l == loc[p]
           tbl == Updated(users, l.orig, l.user)
       IN  IF UniqueOk(tbl)
           THEN /\ users' = tbl
                /\ pc' = [pc EXCEPT ![p] = "done"]
                /\ loc' = [loc EXCEPT ![p].user = Obj(l.user.id, tbl[l.user.id]),
                                      ![p].dbWrite = (tbl # users),
                                      ![p].status = 200]
           ELSE /\ Fail(p, 500, "Internal Server Error")
                /\ UNCHANGED users
    /\ UNCHANGED <<mode, now, idp, regLog, posts, likes, objects>>

\* ------------------------------------------------------------------ login
\* auth/controller.py:113-121: POST /auth/token in federated mode
LoginStart(p) ==
    /\ pc[p] = "idle"
    /\ Federated
    /\ \E username \in TokenNames, pw \in Passwords :
         loc' = [loc EXCEPT ![p] = [Idle EXCEPT !.op = "login",
                                                !.username = username,
                                                !.password = pw]]
    /\ pc' = [pc EXCEPT ![p] = "login_idp"]
    /\ UNCHANGED <<mode, now, users, idp, regLog, posts, likes, objects>>

\* the access token Keycloak issues to IdP user i
AccessToken(i) == <<"access_token", i>>

\* the token endpoint's answer to a password grant it accepts for user i
IdpToken(i) ==
    [access_token |-> AccessToken(i),
     refresh_token |-> <<"refresh_token", i>>,
     expires_in |-> <<"expires_in">>]

\* keycloak_client.py:43-49 authenticate_with_keycloak: what it returns for
\* the token the IdP issued
AuthenticateWithKeycloak(token) ==
    [access_token |-> token.access_token,
     token_type |-> "bearer",
     refresh_token |-> token.refresh_token,
     expires_in |-> token.expires_in]

\* auth/controller.py:131-134: the body of the 200 response
LoginResponseMutRefreshToken(token_data) ==
    [access_token |-> token_data.refresh_token,
     token_type |-> token_data.token_type]

LoginResponse(token_data) ==
    [access_token |-> token_data.access_token,
     token_type |-> token_data.token_type]

\* auth/controller.py:135-139: except Exception answers every exception of
\* authenticate_with_keycloak, whatever its cause, with the same 401
LoginFailure(cause) ==
    [status |-> 401, detail |-> "Incorrect username or password"]

\* auth/controller.py:125-139 with keycloak_client.py:31-52: the password
\* grant; the token is returned as issued, any failure is a 401
LoginGrant(p) ==
    /\ pc[p] = "login_idp"
    /\ \/ \E i \in IdpReady(idp) :
            /\ idp[i].username = loc[p].username
            /\ LET response == LoginResponse(AuthenticateWithKeycloak(IdpToken(i)))
               IN  loc' = [loc EXCEPT ![p].idpCall = TRUE, ![p].status = 200,
                                      ![p].path = "granted",
                                      ![p].issued = IdpToken(i),
                                      ![p].access_token = response.access_token,
                                      ![p].detail = response.token_type]
            /\ pc' = [pc EXCEPT ![p] = "done"]
       \/ /\ pc' = [pc EXCEPT ![p] = "done"]
          /\ \E cause \in IdpFailures :
               loc' = [loc EXCEPT ![p].idpCall = TRUE,
                                  ![p].path = "grant_raised",
                                  ![p].cause = cause,
                                  ![p].status = LoginFailure(cause).status,
                                  ![p].detail = LoginFailure(cause).detail]
    /\ UNCHANGED <<mode, now, users, idp, regLog, posts, likes, objects>>

\* ----------------------------------------------------------- legacy mode
\* auth/service.py:28-32 create_access_token: sub, id and exp = now + delta,
\* signed with SECRET_KEY
CreateAccessToken(username, user_id, expires_minutes) ==
    Jwt(username, user_id, UtcNow + expires_minutes * 60, "SECRET_KEY")

\* auth/controller.py:113-119 and 140: POST /auth/token in legacy mode
LegacyLoginStart(p) ==
    /\ pc[p] = "idle"
    /\ ~Federated
    /\ \E username \in TokenNames, pw \in CandidatePasswords :
         loc' = [loc EXCEPT ![p] = [Idle EXCEPT !.op = "login",
                                                !.username = username,
                                                !.password = pw]]
    /\ pc' = [pc EXCEPT ![p] = "login_db"]
    /\ UNCHANGED <<mode, now, users, idp, regLog, posts, likes, objects>>

\* auth/controller.py:142-149 with authenticate_user (auth/service.py:49-59):
\* select by username, verify_password, mint the token; an exception of
\* verify_password is not handled and gives a server error
LegacyLoginAuth(p) ==
    /\ pc[p] = "login_db"
    /\ LET l == loc[p]
           id == SelectByUsername(users, l.username)
           verdict == IF id = 0 THEN "false"
                      ELSE VerifyPassword(l.password, users[id].password)
       IN  CASE verdict = "true" ->
                  loc' = [loc EXCEPT
                            ![p].dbRead = TRUE, ![p].status = 200,
                            ![p].path = "minted",
                            ![p].user = Obj(id, users[id]),
                            ![p].jwt = CreateAccessToken(users[id].username,
                                          id, LOGIN_EXPIRE_MINUTES),
                            ![p].detail = "bearer"]
             [] verdict = "false" ->
                  loc' = [loc EXCEPT
                            ![p].dbRead = TRUE, ![p].status = 401,
                            ![p].path = "refused",
                            ![p].detail = "Incorrect username or password"]
             [] OTHER ->
                  loc' = [loc EXCEPT
                            ![p].dbRead = TRUE, ![p].status = 500,
                            ![p].path = "verify_raised",
                            ![p].detail = "Internal Server Error"]
    /\ pc' = [pc EXCEPT ![p] = "done"]
    /\ UNCHANGED <<mode, now, users, idp, regLog, posts, likes, objects>>

\* The bearer tokens a client can present in legacy mode: any payload, signed
\* with SECRET_KEY (the tokens create_access_token mints are among them) or
\* with another key
LegacyTokens ==
    {Jwt(sub, id, t * TickSeconds + LOGIN_EXPIRE_MINUTES * 60, key) :
        sub \in TokenNames \cup {None}, id \in 0..MaxUsers,
        t \in 0..MaxTicks, key \in {"SECRET_KEY", "other"}}

\* auth/service.py:62-68 and 136: a request with a bearer token arrives in
\* legacy mode
LegacyResolveStart(p) ==
    /\ pc[p] = "idle"
    /\ ~Federated
    /\ \E token \in LegacyTokens :
         loc' = [loc EXCEPT ![p] = [Idle EXCEPT !.op = "resolve",
                                                !.jwt = token]]
    /\ pc' = [pc EXCEPT ![p] = "gcu_jwt"]
    /\ UNCHANGED <<mode, now, users, idp, regLog, posts, likes, objects>>

\* auth/service.py:138 jwt.decode(token, SECRET_KEY, algorithms=[ALGORITHM]):
\* the signature must be SECRET_KEY's and exp must not lie in the past
JwtDecodeOkMutNoExpiry(token) == token.key = "SECRET_KEY"

JwtDecodeOk(token) == token.key = "SECRET_KEY" /\ token.exp >= UtcNow

\* auth/service.py:138-145 and 156-161: decode, then the check of sub and id
LegacyResolveDecode(p) ==
    /\ pc[p] = "gcu_jwt"
    /\ LET token == loc[p].jwt
       IN  IF JwtDecodeOk(token) /\ token.sub # None /\ token.id # 0
           THEN /\ pc' = [pc EXCEPT ![p] = "gcu_by_id"]
                /\ loc' = [loc EXCEPT ![p].uid = token.id,
                                      ![p].path = "decoded"]
           ELSE /\ pc' = [pc EXCEPT ![p] = "done"]
                /\ loc' = [loc EXCEPT ![p].path = "jwt_rejected",
                                      ![p].status = 401,
                                      ![p].detail = "Could not validate user."]
    /\ UNCHANGED <<mode, now, users, idp, regLog, posts, likes, objects>>

\* auth/service.py:148-161: select by id; a missing row is a 401
LegacyResolveById(p) ==
    /\ pc[p] = "gcu_by_id"
    /\ LET id == SelectById(users, loc[p].uid)
       IN  IF id # 0
           THEN loc' = [loc EXCEPT ![p].dbRead = TRUE, ![p].status = 200,
                                   ![p].orig = Obj(id, users[id]),
                                   ![p].user = Obj(id, users[id])]
           ELSE loc' = [loc EXCEPT ![p].dbRead = TRUE, ![p].status = 401,
                                   ![p].path = "no_row",
                                   ![p].detail = "Could not validate user."]
    /\ pc' = [pc EXCEPT ![p] = "done"]
    /\ UNCHANGED <<mode, now, users, idp, regLog, posts, likes, objects>>

\* -------------------------------------------------------- change_password
\* users/controller.py:26-39: PUT /users/change-password for an
\* authenticated user
ChangeStart(p) ==
    /\ pc[p] = "idle"
    /\ \E uid \in Ids(users), current \in CandidatePasswords,
          new \in NewPasswords, confirm \in NewPasswords :
            loc' = [loc EXCEPT ![p] =
                      [Idle EXCEPT !.op = "change", !.uid = uid,
                                   !.password = current,
                                   !.new_password = new,
                                   !.new_password_confirm = confirm]]
    /\ pc' = [pc EXCEPT ![p] = "chg_load"]
    /\ UNCHANGED <<mode, now, users, idp, regLog, posts, likes, objects>>

\* users/service.py:34-47: get_user_by_id, verify_password on the current
\* password, the comparison of the two new passwords, the new hash set on
\* the object; an exception of verify_password is re-raised (:53-55)
ChangeLoad(p) ==
    /\ pc[p] = "chg_load"
    /\ LET l == loc[p]
           id == SelectById(users, l.uid)
           verdict == IF id = 0 THEN "none"
                      ELSE VerifyPassword(l.password, users[id].password)
       IN  CASE verdict = "none" ->
                  /\ pc' = [pc EXCEPT ![p] = "done"]
                  /\ loc' = [loc EXCEPT ![p].dbRead = TRUE, ![p].status = 404,
                                        ![p].detail = "User not found"]
             [] verdict = "raise" ->
                  /\ pc' = [pc EXCEPT ![p] = "done"]
                  /\ loc' = [loc EXCEPT ![p].dbRead = TRUE, ![p].status = 500,
                                        ![p].path = "verify_raised",
                                        ![p].detail = "Internal Server Error"]
             [] verdict = "false" ->
                  /\ pc' = [pc EXCEPT ![p] = "done"]
                  /\ loc' = [loc EXCEPT
                               ![p].dbRead = TRUE, ![p].status = 401,
                               ![p].detail = "Current password is incorrect"]
             [] OTHER ->
                  IF l.new_password # l.new_password_confirm
                  THEN /\ pc' = [pc EXCEPT ![p] = "done"]
                       /\ loc' = [loc EXCEPT
                                    ![p].dbRead = TRUE, ![p].status = 400,
                                    ![p].detail = "New passwords do not match"]
                  ELSE /\ pc' = [pc EXCEPT ![p] = "chg_commit"]
                       /\ loc' = [loc EXCEPT
                                    ![p].dbRead = TRUE,
                                    ![p].orig = Obj(id, users[id]),
                                    ![p].user =
                                       [Obj(id, users[id]) EXCEPT
                                          !.password = Hash(l.new_password)]]
    /\ UNCHANGED <<mode, now, users, idp, regLog, posts, likes, objects>>

\* users/service.py:48-50 and users/controller.py:40: commit, refresh
ChangeCommit(p) ==
    /\ pc[p] = "chg_commit"
    /\ LET l == loc[p]
           tbl == Updated(users, l.orig, l.user)
       IN  /\ users' = tbl
           /\ loc' = [loc EXCEPT ![p].user = Obj(l.user.id, tbl[l.user.id]),
                                 ![p].dbWrite = TRUE,
                                 ![p].status = 200]
    /\ pc' = [pc EXCEPT ![p] = "done"]
    /\ UNCHANGED <<mode, now, idp, regLog, posts, likes, objects>>

\* ------------------------------------------------- upload_profile_picture
\* users/controller.py:59-71: POST /users/me/profile-picture for an
\* authenticated user; the file is stored and its object name returned
PictureStart(p) ==
    /\ pc[p] = "idle"
    /\ \E uid \in Ids(users) :
         loc' = [loc EXCEPT ![p] = [Idle EXCEPT !.op = "picture",
                                                !.uid = uid]]
    /\ pc' = [pc EXCEPT ![p] = "pic_load"]
    /\ UNCHANGED <<mode, now, users, idp, regLog, posts, likes, objects>>

\* the object name upload_profile_picture returns for a user
ObjectName(user_id) == <<"users", user_id>>

\* users/service.py:103 (get_user_by_id, :9-17)
PictureLoad(p) ==
    /\ pc[p] = "pic_load"
    /\ LET id == SelectById(users, loc[p].uid)
       IN  IF id = 0
           THEN /\ pc' = [pc EXCEPT ![p] = "done"]
                /\ loc' = [loc EXCEPT ![p].dbRead = TRUE, ![p].status = 404,
                                      ![p].detail = "User not found"]
           ELSE /\ pc' = [pc EXCEPT ![p] = "pic_commit"]
                /\ loc' = [loc EXCEPT ![p].dbRead = TRUE,
                                      ![p].orig = Obj(id, users[id]),
                                      ![p].user = Obj(id, users[id])]
    /\ UNCHANGED <<mode, now, users, idp, regLog, posts, likes, objects>>

\* users/service.py:113-117: the new object name is written and committed
PictureCommit(p) ==
    /\ pc[p] = "pic_commit"
    /\ LET user == [loc[p].user EXCEPT
                      !.profile_picture_url = ObjectName(loc[p].uid)]
           tbl == Updated(users, loc[p].orig, user)
       IN  /\ users' = tbl
           /\ loc' = [loc EXCEPT ![p].user = Obj(user.id, tbl[user.id]),
                                 ![p].dbWrite = TRUE, ![p].status = 200]
    /\ pc' = [pc EXCEPT ![p] = "done"]
    /\ UNCHANGED <<mode, now, idp, regLog, posts, likes, objects>>

\* ------------------------------------------------------------------ posts
\* entities/post.py: a row of the posts table; live is false once the row
\* has been deleted (ids are not reused)
Post(user_id, image_url) ==
    [user_id |-> user_id, image_url |-> image_url, live |-> TRUE]

PostIds == 1..MaxPosts

\* select(Post).where(Post.id == post_id) ... scalar_one_or_none()
PostExists(tbl, post_id) == post_id \in 1..Len(tbl) /\ tbl[post_id].live

\* storage/minio_client.py:267: the object name of a post's image
PostImageName(user_id, post_id) == <<"posts", user_id, post_id>>

\* entities/like.py: a row of the likes table
Like(user_id, post_id) == [user_id |-> user_id, post_id |-> post_id]

\* the rows of the likes table for a post, and those of one user among them
LikesOf(tbl, post_id) ==
    {k \in 1..Len(tbl) : tbl[k].post_id = post_id}
LikesBy(tbl, post_id, user_id) ==
    {k \in LikesOf(tbl, post_id) : tbl[k].user_id = user_id}

\* posts/controller.py:17-29 with posts/service.py:14-21: POST /posts/ for
\* an authenticated user; the row is inserted without an image
CreateStart(p) ==
    /\ pc[p] = "idle"
    /\ Len(posts) < MaxPosts
    /\ \E uid \in Ids(users), image \in BOOLEAN :
         /\ posts' = Append(posts, Post(uid, None))
         /\ loc' = [loc EXCEPT ![p] =
                      [Idle EXCEPT !.op = "create_post", !.uid = uid,
                                   !.post_id = Len(posts) + 1,
                                   !.image = image, !.dbWrite = TRUE,
                                   !.status = IF image THEN 0 ELSE 201]]
         /\ pc' = [pc EXCEPT ![p] = IF image THEN "post_image" ELSE "done"]
    /\ UNCHANGED <<mode, now, users, idp, regLog, likes, objects>>

\* posts/service.py:81-90 as called at posts/controller.py:42: the DELETE
\* statement for a post; a like that references the post makes it fail (the
\* foreign key of likes.post_id has no ON DELETE rule)
DeleteStatement(p, post_id, okStatus) ==
    IF LikesOf(likes, post_id) # {}
    THEN /\ Fail(p, 500, "IntegrityError")
         /\ UNCHANGED posts
    ELSE /\ posts' = [posts EXCEPT ![post_id].live = FALSE]
         /\ pc' = [pc EXCEPT ![p] = "done"]
         /\ loc' = [loc EXCEPT ![p].dbWrite = TRUE, ![p].status = okStatus]

\* posts/controller.py:32-43: the image is uploaded (put_object) and its
\* name committed to the post; when the upload or the commit raises, the
\* post is deleted again (service.delete_post) and the error re-raised
CreateImage(p) ==
    /\ pc[p] = "post_image"
    /\ LET id == loc[p].post_id
           name == PostImageName(loc[p].uid, id)
       IN  \/ /\ objects' = objects \cup {name}
              /\ IF PostExists(posts, id)
                 THEN /\ posts' = [posts EXCEPT ![id].image_url = name]
                      /\ pc' = [pc EXCEPT ![p] = "done"]
                      /\ loc' = [loc EXCEPT ![p].image_url = name,
                                            ![p].status = 201]
                 ELSE /\ Fail(p, 404, "Post not found")
                      /\ UNCHANGED posts
           \/ /\ UNCHANGED objects
              /\ IF PostExists(posts, id)
                 THEN DeleteStatement(p, id, 500)
                 ELSE /\ Fail(p, 404, "Post not found")
                      /\ UNCHANGED posts
    /\ UNCHANGED <<mode, now, users, idp, regLog, likes>>

\* posts/controller.py:245-251: DELETE /posts/{post_id} for an authenticated
\* user
DeleteStart(p) ==
    /\ pc[p] = "idle"
    /\ \E uid \in Ids(users), post_id \in PostIds :
         loc' = [loc EXCEPT ![p] = [Idle EXCEPT !.op = "delete_post",
                                                !.uid = uid,
                                                !.post_id = post_id]]
    /\ pc' = [pc EXCEPT ![p] = "del_get"]
    /\ UNCHANGED <<mode, now, users, idp, regLog, posts, likes, objects>>

\* posts/controller.py:254-262 with posts/service.py:23-34 and
\* storage/minio_client.py:329-346: the post is loaded and its image removed
\* from the bucket; a failure of the removal is only logged
DeleteGet(p) ==
    /\ pc[p] = "del_get"
    /\ LET id == loc[p].post_id
       IN  IF ~PostExists(posts, id)
           THEN /\ Fail(p, 404, "Post not found")
                /\ UNCHANGED objects
           ELSE /\ pc' = [pc EXCEPT ![p] = "del_select"]
                /\ loc' = [loc EXCEPT ![p].dbRead = TRUE,
                                      ![p].image_url = posts[id].image_url]
                /\ IF posts[id].image_url # None
                   THEN \/ objects' = objects \ {posts[id].image_url}
                        \/ UNCHANGED objects
                   ELSE UNCHANGED objects
    /\ UNCHANGED <<mode, now, users, idp, regLog, posts, likes>>

\* posts/service.py:73-79: the post is selected again; a post of another
\* user is refused
DeleteSelect(p) ==
    /\ pc[p] = "del_select"
    /\ LET id == loc[p].post_id
       IN  IF ~PostExists(posts, id)
           THEN Fail(p, 404, "Post not found")
           ELSE IF posts[id].user_id # loc[p].uid
           THEN Fail(p, 403, "You can only delete your own posts")
           ELSE /\ pc' = [pc EXCEPT ![p] = "del_commit"]
                /\ loc' = loc
    /\ UNCHANGED <<mode, now, users, idp, regLog, posts, likes, objects>>

\* posts/service.py:81-90: delete(Post).where(Post.id == post_id), commit
DeleteCommit(p) ==
    /\ pc[p] = "del_commit"
    /\ DeleteStatement(p, loc[p].post_id, 204)
    /\ UNCHANGED <<mode, now, users, idp, regLog, likes, objects>>

\* ------------------------------------------------------------------ likes
\* likes/controller.py:12-22: POST /likes/posts/{post_id} for an
\* authenticated user
ToggleStart(p) ==
    /\ pc[p] = "idle"
    /\ \E uid \in Ids(users), post_id \in PostIds :
         loc' = [loc EXCEPT ![p] = [Idle EXCEPT !.op = "toggle_like",
                                                !.uid = uid,
                                                !.post_id = post_id]]
    /\ pc' = [pc EXCEPT ![p] = "like_post"]
    /\ UNCHANGED <<mode, now, users, idp, regLog, posts, likes, objects>>

\* likes/service.py:18-24: the post must exist
ToggleGetPost(p) ==
    /\ pc[p] = "like_post"
    /\ IF PostExists(posts, loc[p].post_id)
       THEN /\ pc' = [pc EXCEPT ![p] = "like_get"]
            /\ loc' = [loc EXCEPT ![p].dbRead = TRUE]
       ELSE /\ pc' = [pc EXCEPT ![p] = "done"]
            /\ loc' = [loc EXCEPT ![p].dbRead = TRUE, ![p].status = 404,
                                  ![p].detail = "PostNotFoundError"]
    /\ UNCHANGED <<mode, now, users, idp, regLog, posts, likes, objects>>

\* likes/service.py:27-33 and 63-68: the select of the user's like on the
\* post; scalar_one_or_none raises when it finds more than one row
ToggleGetLike(p) ==
    /\ pc[p] = "like_get"
    /\ LET found == LikesBy(likes, loc[p].post_id, loc[p].uid)
       IN  IF Cardinality(found) > 1
           THEN Fail(p, 500, "MultipleResultsFound")
           ELSE /\ pc' = [pc EXCEPT ![p] = "like_commit"]
                /\ loc' = [loc EXCEPT ![p].existing_like = found # {}]
    /\ UNCHANGED <<mode, now, users, idp, regLog, posts, likes, objects>>

\* entities/like.py:19-22 and the migration 60ad49283a67:34-44: the unique
\* constraint unique_user_post_like on (user_id, post_id)
UniqueLikeOkMutNoConstraint(tbl) == TRUE

UniqueLikeOk(tbl) ==
    \A j, k \in 1..Len(tbl) :
        (tbl[j].user_id = tbl[k].user_id /\ tbl[j].post_id = tbl[k].post_id)
            => j = k

\* likes/service.py:46-50 session.add(like): the table with the row added;
\* the code never depends on the order of the rows, they are kept in the
\* order of (post_id, user_id)
LikeKey(l) == l.post_id * (MaxUsers + 1) + l.user_id
LikeInserted(tbl, row) ==
    LET k == Cardinality({j \in 1..Len(tbl) :
                            LikeKey(tbl[j]) <= LikeKey(row)})
    IN  SubSeq(tbl, 1, k) \o <<row>> \o SubSeq(tbl, k + 1, Len(tbl))

\* likes/service.py:35-43: delete(Like).where(post_id, user_id)
Unliked(tbl, post_id, user_id) ==
    SelectSeq(tbl, LAMBDA l : ~(l.post_id = post_id /\ l.user_id = user_id))

\* likes/service.py:35-54 and 63-68: the like is deleted or inserted and the
\* transaction committed; a violation of the unique constraint or of the
\* foreign key to posts raises, the transaction is rolled back
ToggleCommit(p) ==
    /\ pc[p] = "like_commit"
    /\ LET l == loc[p]
       IN  IF l.existing_like
           THEN /\ likes' = Unliked(likes, l.post_id, l.uid)
                /\ pc' = [pc EXCEPT ![p] = "like_count"]
                /\ loc' = [loc EXCEPT ![p].is_liked = FALSE,
                                      ![p].dbWrite = TRUE]
           ELSE LET tbl == LikeInserted(likes, Like(l.uid, l.post_id))
                IN  IF UniqueLikeOk(tbl) /\ PostExists(posts, l.post_id)
                    THEN /\ likes' = tbl
                         /\ pc' = [pc EXCEPT ![p] = "like_count"]
                         /\ loc' = [loc EXCEPT ![p].is_liked = TRUE,
                                               ![p].dbWrite = TRUE]
                    ELSE /\ Fail(p, 500, "IntegrityError")
                         /\ UNCHANGED likes
    /\ UNCHANGED <<mode, now, users, idp, regLog, posts, objects>>

\* likes/service.py:56-61: select(func.count(Like.id)) for the post
ToggleCount(p) ==
    /\ pc[p] = "like_count"
    /\ loc' = [loc EXCEPT
                 ![p].like_count = Cardinality(LikesOf(likes, loc[p].post_id)),
                 ![p].status = 200]
    /\ pc' = [pc EXCEPT ![p] = "done"]
    /\ UNCHANGED <<mode, now, users, idp, regLog, posts, likes, objects>>

\* ------------------------------------------------ get_current_user_optional
\* auth/service.py:170-178: the optional dependency of endpoints that also
\* serve anonymous clients.  oauth2_bearer_optional (auto_error=False) hands
\* None when the request carries no bearer token and the function returns
\* None at once (176-177); otherwise it calls get_current_user (178-179),
\* whose steps are the actions of get_current_user above
OptionalStart(p) ==
    /\ pc[p] = "idle"
    /\ \/ /\ pc' = [pc EXCEPT ![p] = "done"]
          /\ loc' = [loc EXCEPT ![p] =
                       [Idle EXCEPT !.op = "optional_done",
                                    !.path = "no_token", !.status = 200]]
       \/ /\ Federated
          /\ pc' = [pc EXCEPT ![p] = "gcu_verify"]
          /\ loc' = [loc EXCEPT ![p] = [Idle EXCEPT !.op = "optional"]]
       \/ /\ ~Federated
          /\ pc' = [pc EXCEPT ![p] = "gcu_jwt"]
          /\ \E token \in LegacyTokens :
               loc' = [loc EXCEPT ![p] = [Idle EXCEPT !.op = "optional",
                                                      !.jwt = token]]
    /\ UNCHANGED <<mode, now, users, idp, regLog, posts, likes, objects>>

\* auth/service.py:178-181: what the optional dependency hands to the
\* endpoint once get_current_user has ended in l: the user, or None when
\* get_current_user raised an HTTPException (every failure of
\* get_current_user is one, auth/service.py:156-161)
OptionalResultMutNoCatch(l) == [l EXCEPT !.op = "optional_done"]

OptionalResult(l) ==
    IF l.status = 200
    THEN [l EXCEPT !.op = "optional_done"]
    ELSE [l EXCEPT !.op = "optional_done", !.user = NoObj,
                   !.status = 200, !.detail = ""]

\* auth/service.py:178-181: the try/except around get_current_user
OptionalReturn(p) ==
    /\ pc[p] = "done"
    /\ loc[p].op = "optional"
    /\ loc' = [loc EXCEPT ![p] = OptionalResult(loc[p])]
    /\ UNCHANGED <<mode, now, users, idp, pc, regLog, posts, likes, objects>>

\* the response is sent and the request's task ends
Finish(p) ==
    /\ pc[p] = "done"
    /\ loc[p].op # "optional"
    /\ pc' = [pc EXCEPT ![p] = "idle"]
    /\ loc' = [loc EXCEPT ![p] = Idle]
    /\ UNCHANGED <<mode, now, users, idp, regLog, posts, likes, objects>>

\* the clock advances
Tick ==
    /\ now < MaxTicks
    /\ now' = now + 1
    /\ UNCHANGED <<mode, users, idp, pc, loc, regLog, posts, likes, objects>>

\* the deployment is cut over from legacy to federated: the process is
\* restarted with USE_KEYCLOAK=true (auth/service.py:22), no request in flight
Cutover ==
    /\ mode = "legacy"
    /\ \A p \in Procs : pc[p] = "idle"
    /\ mode' = "federated"
    /\ UNCHANGED <<now, users, idp, pc, loc, regLog, posts, likes, objects>>

Step(p) ==
    \/ RegisterStart(p)
    \/ RegisterProbe(p)
    \/ RegisterEmailCheck(p)
    \/ RegisterProvision(p)
    \/ RegisterCommit(p)
    \/ ResolveStart(p)
    \/ ResolveVerify(p)
    \/ ResolveByKc(p)
    \/ ResolveByUsername(p)
    \/ ResolveInsert(p)
    \/ ResolveSync(p)
    \/ UpdateStart(p)
    \/ UpdateLoad(p)
    \/ UpdateNameCheck(p)
    \/ UpdateEmailCheck(p)
    \/ UpdateCommit(p)
    \/ LoginStart(p)
    \/ LoginGrant(p)
    \/ Finish(p)

\* ---------------------------------------------------------- specifications
\* Requests one after the other: a request is handled to its end before the
\* next one arrives
Next ==
    \/ Step("r1")
    \/ Tick
    \/ Cutover

Spec == Init /\ [][Next]_vars

\* Concurrent get_current_user requests: the steps of the two request slots
\* interleave at every await
ResolveStep(p) ==
    \/ ResolveStart(p)
    \/ ResolveVerify(p)
    \/ ResolveByKc(p)
    \/ ResolveByUsername(p)
    \/ ResolveInsert(p)
    \/ ResolveSync(p)
    \/ Finish(p)

NextResolveRace == \E p \in Procs : ResolveStep(p)

SpecResolveRace == Init /\ [][NextResolveRace]_vars

\* Concurrent register requests, in either mode
RegisterStep(p) ==
    \/ RegisterStart(p)
    \/ RegisterProbe(p)
    \/ RegisterEmailCheck(p)
    \/ RegisterProvision(p)
    \/ RegisterCommit(p)
    \/ Finish(p)

NextRegisterRace == \E p \in Procs : RegisterStep(p)

SpecRegisterRace == Init /\ [][NextRegisterRace]_vars

\* the deployment is switched back to legacy mode: the process is restarted
\* with USE_KEYCLOAK=false (auth/service.py:22), no request in flight
Rollback ==
    /\ mode = "federated"
    /\ \A p \in Procs : pc[p] = "idle"
    /\ mode' = "legacy"
    /\ UNCHANGED <<now, users, idp, pc, loc, regLog, posts, likes, objects>>

\* Local passwords and legacy tokens: register in either mode, the legacy
\* login, the legacy token check and change_password, one request after the
\* other, with the mode switched in either direction between requests
LegacyStep(p) ==
    \/ RegisterStart(p)
    \/ RegisterProbe(p)
    \/ RegisterEmailCheck(p)
    \/ RegisterProvision(p)
    \/ RegisterCommit(p)
    \/ LegacyLoginStart(p)
    \/ LegacyLoginAuth(p)
    \/ LegacyResolveStart(p)
    \/ LegacyResolveDecode(p)
    \/ LegacyResolveById(p)
    \/ ChangeStart(p)
    \/ ChangeLoad(p)
    \/ ChangeCommit(p)
    \/ Finish(p)

NextLegacy ==
    \/ LegacyStep("r1")
    \/ Tick
    \/ Cutover
    \/ Rollback

SpecLegacy == Init /\ [][NextLegacy]_vars

\* update_user requests
UpdateStep(p) ==
    \/ UpdateStart(p)
    \/ UpdateLoad(p)
    \/ UpdateNameCheck(p)
    \/ UpdateEmailCheck(p)
    \/ UpdateCommit(p)
    \/ Finish(p)

\* Concurrent writers of the users table, interleaved at every await: one
\* request slot serves register and update_user requests, the other
\* get_current_user requests (first-login insert, upgrade of a legacy row,
\* sync)
NextWriteRace ==
    \/ RegisterStep("r1")
    \/ UpdateStep("r1")
    \/ ResolveStep("r2")
    \/ Cutover

SpecWriteRace == Init /\ [][NextWriteRace]_vars

\* Concurrent update_user requests, next to register requests
NextUpdateRace ==
    \/ RegisterStep("r1")
    \/ UpdateStep("r1")
    \/ UpdateStep("r2")
    \/ Cutover

SpecUpdateRace == Init /\ [][NextUpdateRace]_vars

\* Requests through the optional dependency, one after the other and in
\* either mode, next to register requests
OptionalStep(p) ==
    \/ OptionalStart(p)
    \/ ResolveVerify(p)
    \/ ResolveByKc(p)
    \/ ResolveByUsername(p)
    \/ ResolveInsert(p)
    \/ ResolveSync(p)
    \/ LegacyResolveDecode(p)
    \/ LegacyResolveById(p)
    \/ OptionalReturn(p)

NextOptional ==
    \/ OptionalStep("r1")
    \/ RegisterStep("r1")
    \/ Tick
    \/ Cutover

SpecOptional == Init /\ [][NextOptional]_vars

\* register requests, one after the other, against either realm
NextProvision ==
    \/ RegisterStep("r1")
    \/ Cutover

SpecProvision == InitRealm /\ [][NextProvision]_vars

\* Two get_current_user calls, one per request slot, interleaved at every
\* await, on a table with linked rows; each call stays at its end
SyncPairStep(p) ==
    \/ ResolveStart(p)
    \/ ResolveVerify(p)
    \/ ResolveByKc(p)
    \/ ResolveByUsername(p)
    \/ ResolveInsert(p)
    \/ ResolveSync(p)

NextSyncPair ==
    \/ \E p \in Procs : SyncPairStep(p)
    \/ Tick

SpecSyncPair == InitLinked /\ [][NextSyncPair]_vars

\* register, get_current_user and profile picture requests, one after the
\* other, with the cut-over to federated mode between requests
PictureStep(p) ==
    \/ PictureStart(p)
    \/ PictureLoad(p)
    \/ PictureCommit(p)

NextFrame ==
    \/ RegisterStep("r1")
    \/ ResolveStep("r1")
    \/ PictureStep("r1")
    \/ Cutover

SpecFrame == Init /\ [][NextFrame]_vars

\* Posts and likes: create_post, delete_post and toggle_like requests of two
\* users, one request after the other
PostStep(p) ==
    \/ CreateStart(p)
    \/ CreateImage(p)
    \/ DeleteStart(p)
    \/ DeleteGet(p)
    \/ DeleteSelect(p)
    \/ DeleteCommit(p)

ToggleStep(p) ==
    \/ ToggleStart(p)
    \/ ToggleGetPost(p)
    \/ ToggleGetLike(p)
    \/ ToggleCommit(p)
    \/ ToggleCount(p)
    \/ Finish(p)

NextPosts ==
    \/ PostStep("r1")
    \/ ToggleStep("r1")

SpecPosts == InitContent /\ [][NextPosts]_vars

\* Concurrent toggle_like requests, interleaved at every await, next to
\* create_post requests
NextLikes ==
    \/ CreateStart("r1")
    \/ CreateImage("r1")
    \/ \E p \in Procs : ToggleStep(p)

SpecLikes == InitContent /\ [][NextLikes]_vars

\* ------------------------------------------------------------------ claims
Resolved(p) ==
    pc[p] = "done" /\ loc[p].op = "resolve" /\ loc[p].status = 200

\* the step in which request p ends (its handler returns or raises)
Ends(p) == pc[p] # "done" /\ pc'[p] = "done"

\* C1: whenever get_current_user returns a user in federated mode, the
\* user's keycloak_user_id equals the sub claim of the presented token, also
\* when the row was found by the username fallback and already carries
\* another Keycloak id.
C1_ResolvedUserHasTokenSub ==
    \A p \in Procs :
        Resolved(p) =>
            loc[p].user.keycloak_user_id = loc[p].tok.keycloak_user_id

\* C2: two concurrent first-login get_current_user calls with identical
\* claims, both on the first-login branch, leave exactly one row for that
\* Keycloak id and both return it: neither ends in an error.
C2_ConcurrentFirstLoginConverges ==
    \A p, q \in Procs :
        (/\ p # q
         /\ pc[p] = "done" /\ pc[q] = "done"
         /\ loc[p].op = "resolve" /\ loc[q].op = "resolve"
         /\ loc[p].path = "jit" /\ loc[q].path = "jit"
         /\ loc[p].tok = loc[q].tok)
        => /\ loc[p].status = 200 /\ loc[q].status = 200
           /\ loc[p].user.id = loc[q].user.id
           /\ Cardinality({i \in Ids(users) :
                  users[i].keycloak_user_id = loc[p].tok.keycloak_user_id}) = 1

\* C3: over any sequence of register, login, get_current_user and update_user
\* requests, a row's keycloak_user_id, once non-null, keeps its value in
\* every later state (and the row stays).
C3_FederatedIdNeverRewritten ==
    [][\A i \in Ids(users) :
          users[i].keycloak_user_id # None =>
              /\ i \in Ids(users')
              /\ users'[i].keycloak_user_id = users[i].keycloak_user_id]_vars

\* a get_current_user that found, by username, a row carrying another
\* Keycloak id than the token's, wrote the row, and left that id in place
C3_Witness ==
    \E p \in Procs :
        /\ Resolved(p) /\ loc[p].dbWrite
        /\ loc[p].orig.keycloak_user_id # None
        /\ loc[p].orig.keycloak_user_id # loc[p].tok.keycloak_user_id
        /\ users[loc[p].user.id].keycloak_user_id = loc[p].orig.keycloak_user_id

\* C4: when a get_current_user returns successfully and a legacy row
\* (keycloak_user_id null) holds the token's preferred_username, that row is
\* the one returned, under its old id, and it is persisted with
\* keycloak_user_id = sub and last_synced_at set.
C4_LegacyRowUpgraded ==
    [][\A p \in Procs :
          (Ends(p) /\ loc'[p].op = "resolve" /\ loc'[p].status = 200) =>
              \A i \in Ids(users) :
                  (/\ users[i].keycloak_user_id = None
                   /\ users[i].username = loc'[p].tok.preferred_username)
                  => /\ loc'[p].user.id = i
                     /\ users'[i].keycloak_user_id
                            = loc'[p].tok.keycloak_user_id
                     /\ users'[i].keycloak_user_id # None
                     /\ users'[i].last_synced_at # None]_vars

\* a legacy row was upgraded: the object loaded had no Keycloak id, the row
\* now carries the token's sub and a sync time
C4_Witness ==
    \E p \in Procs :
        /\ Resolved(p)
        /\ loc[p].orig.id # 0
        /\ loc[p].orig.keycloak_user_id = None
        /\ loc[p].orig.password # None
        /\ users[loc[p].orig.id].keycloak_user_id = loc[p].tok.keycloak_user_id
        /\ users[loc[p].orig.id].last_synced_at # None

\* C5: once verify_keycloak_token has answered with active = false (or has
\* raised), get_current_user ends in a 401 without any read or write of the
\* users table; and no request reads or writes the table before the
\* introspection has completed with an active token.
C5_InactiveTokenTouchesNoTable ==
    \A p \in Procs :
        loc[p].op = "resolve" =>
            /\ (loc[p].idpCall /\ ~loc[p].tok.active)
                   => /\ pc[p] = "done"
                      /\ loc[p].status = 401
                      /\ ~loc[p].dbRead /\ ~loc[p].dbWrite
            /\ (loc[p].dbRead \/ loc[p].dbWrite
                    \/ pc[p] \in {"gcu_by_kc", "gcu_by_name",
                                  "gcu_insert", "gcu_sync"})
                   => loc[p].idpCall /\ loc[p].tok.active

\* an otherwise complete token reported inactive was refused with a 401
C5_Witness ==
    \E p \in Procs :
        /\ pc[p] = "done" /\ loc[p].op = "resolve"
        /\ loc[p].idpCall /\ ~loc[p].tok.active
        /\ loc[p].tok.keycloak_user_id # None
        /\ loc[p].tok.preferred_username # None
        /\ loc[p].status = 401
        /\ Len(users) > 0

\* C6: when register succeeds in federated mode, the table holds exactly one
\* row whose keycloak_user_id is the id create_user_in_keycloak returned;
\* that row has password "" and last_synced_at = the time of the insert, and
\* the response carries that row's id and the same Keycloak id.
C6_RegisterLeavesOneFederatedRow ==
    [][\A p \in Procs :
          (/\ Ends(p) /\ loc'[p].op = "register" /\ loc'[p].status = 201
           /\ Federated)
          => LET k == loc[p].kcid
                 rows == {i \in Ids(users') : users'[i].keycloak_user_id = k}
                 resp == regLog'[Len(regLog')]
             IN  /\ k # None
                 /\ Cardinality(rows) = 1
                 /\ \A i \in rows :
                       /\ users'[i].password = None
                       /\ users'[i].last_synced_at = <<UtcNow>>
                       /\ resp.user_id = i
                       /\ i \notin Ids(users)
                 /\ Len(regLog') = Len(regLog) + 1
                 /\ resp.keycloak_user_id = k]_vars

\* a federated register has answered 201 for a user Keycloak made ready
C6_Witness ==
    \E p \in Procs :
        /\ pc[p] = "done" /\ loc[p].op = "register" /\ loc[p].status = 201
        /\ Federated
        /\ loc[p].kcid # None
        /\ users[loc[p].user.id].keycloak_user_id = loc[p].kcid
        /\ Len(users) = 2

\* the usernames register tries, in order, for first_name "A b", last_name "C"
ExpectedUsernames ==
    << <<"a", ".", "b", ".", "c">>,
       <<"a", ".", "b", ".", "c", "1">>,
       <<"a", ".", "b", ".", "c", "2">>,
       <<"a", ".", "b", ".", "c", "3">>,
       <<"a", ".", "b", ".", "c", "4">> >>

\* C7: register's candidate is lower(first_name).lower(last_name) with
\* spaces turned into dots, then that name followed by 1, 2, ...; every name
\* before the one it holds was found in use; a 201 stores the name it
\* picked; and over any interleaving of register calls no two of them
\* succeed with the same username.
C7_RegisterLinearProbeNoDuplicate ==
    /\ \A p \in Procs :
          loc[p].op = "register" =>
              /\ loc[p].counter \in 1..Len(ExpectedUsernames)
              /\ loc[p].username = ExpectedUsernames[loc[p].counter]
              /\ \A j \in 1..(loc[p].counter - 1) :
                    \E i \in Ids(users) :
                        users[i].username = ExpectedUsernames[j]
              /\ loc[p].status = 201
                    => users[loc[p].user.id].username = loc[p].username
    /\ \A i, j \in 1..Len(regLog) :
          i # j => regLog[i].username # regLog[j].username

\* two register calls for the same names succeeded, as base and base1, and a
\* concurrent one that had picked a name already taken failed
C7_Witness ==
    /\ Len(regLog) = 2
    /\ regLog[1].username = ExpectedUsernames[1]
    /\ regLog[2].username = ExpectedUsernames[2]
    /\ \E p \in Procs :
          /\ pc[p] = "done" /\ loc[p].op = "register"
          /\ loc[p].counter = 2 /\ loc[p].status = 201

\* C8: when a row already holds the profile's email at register's email
\* check, the request ends there with 400 "Email already exists", without any
\* call to the IdP and with the users table unchanged.
C8_EmailTakenStopsRegister ==
    [][\A p \in Procs :
          (/\ pc[p] = "reg_email" /\ pc'[p] # "reg_email"
           /\ \E i \in Ids(users) : users[i].email = loc[p].email)
          => /\ pc'[p] = "done"
             /\ loc'[p].status = 400
             /\ ~loc'[p].idpCall /\ ~loc'[p].dbWrite
             /\ users' = users /\ idp' = idp /\ regLog' = regLog]_vars

\* a register was refused with 400 after a username probe had moved on
C8_Witness ==
    \E p \in Procs :
        /\ pc[p] = "done" /\ loc[p].op = "register" /\ loc[p].status = 400
        /\ \E i \in Ids(users) : users[i].email = loc[p].email
        /\ ~loc[p].idpCall
        /\ Federated

\* C9: in a federated register the insert is attempted only after
\* create_user_in_keycloak has returned, and when that call raises the
\* request ends with 500 and the users table is left unchanged.
C9_ProvisionErrorWritesNoRow ==
    /\ [](\A p \in Procs :
            (loc[p].op = "register" /\ Federated) =>
                /\ (pc[p] = "reg_commit" \/ loc[p].dbWrite)
                       => loc[p].path = "idp_ok" /\ loc[p].kcid # None
                /\ loc[p].path = "idp_error"
                       => /\ pc[p] = "done" /\ loc[p].status = 500
                          /\ ~loc[p].dbWrite)
    /\ [][\A p \in Procs :
            (loc[p].path # "idp_error" /\ loc'[p].path = "idp_error")
                => users' = users /\ regLog' = regLog]_vars

\* the password step failed after Keycloak had created the user: the request
\* ended with 500, the IdP keeps the user, the table has no row for it
C9_Witness ==
    \E p \in Procs :
        /\ pc[p] = "done" /\ loc[p].op = "register"
        /\ loc[p].path = "idp_error" /\ loc[p].status = 500
        /\ \E i \in IdpIds :
              /\ idp[i].phase = "created"
              /\ idp[i].username = loc[p].username
              /\ \A r \in Ids(users) : users[r].keycloak_user_id # KcId(i)

\* C10: register answers 201 (and writes a row) only for a user whose
\* provisioning went through all three phases: a failed set-credential or a
\* failed fetch / finalize PUT makes the request fail with 500.
C10_SuccessOnlyAfterFinalize ==
    \A p \in Procs :
        (loc[p].op = "register" /\ Federated /\ loc[p].status = 201)
        => idp[loc[p].kcid[1]].phase = "ready"

\* the email get_current_user would write for token_info on a row holding
\* email: the email claim, or the old value when the claim is empty
ClaimedEmail(token_info, email) ==
    IF token_info.email # None THEN token_info.email ELSE email

\* another row than id holds the username or the email of the token
HeldByAnother(id, token_info) ==
    \E j \in Ids(users) :
        /\ j # id
        /\ \/ users[j].username = token_info.preferred_username
           \/ token_info.email # None /\ users[j].email = token_info.email

\* request p takes the step of get_current_user's existing-row branch
SyncStep(p) == pc[p] = "gcu_sync" /\ pc'[p] = "done"

\* C12: when the sync of get_current_user would write a username or an email
\* that another row holds, the call still returns the candidate user, the
\* row keeps its username and email, and last_synced_at is set to now.
C12_SyncConflictNotFatal ==
    [][\A p \in Procs :
          (SyncStep(p) /\ HeldByAnother(loc[p].user.id, loc[p].tok)) =>
              LET id == loc[p].user.id
              IN  /\ loc'[p].status = 200
                  /\ loc'[p].user.id = id
                  /\ users'[id].username = users[id].username
                  /\ users'[id].email = users[id].email
                  /\ users'[id].last_synced_at = <<UtcNow>>]_vars

\* C13: when the row was found by keycloak_user_id, has the token's
\* preferred_username, a last_synced_at not older than the TTL, and the
\* token's email (or the token has no email), get_current_user returns the
\* row and leaves the table as it is.
C13_FreshRowNotWritten ==
    [][\A p \in Procs :
          (/\ SyncStep(p)
           /\ loc[p].path = "by_kc"
           /\ loc[p].user.username = loc[p].tok.preferred_username
           /\ loc[p].user.last_synced_at # None
           /\ UtcNow - loc[p].user.last_synced_at[1] <= SYNC_TTL
           /\ \/ loc[p].tok.email = None
              \/ loc[p].user.email = loc[p].tok.email)
          => /\ loc'[p].status = 200
             /\ loc'[p].user.id = loc[p].user.id
             /\ users' = users]_vars

\* C14: a token whose sub matches no row and whose preferred_username is
\* held by a row that already carries a Keycloak id does not resolve to that
\* row: get_current_user goes on to the first-login insert.
C14_OtherSubGoesToInsert ==
    [][\A p \in Procs :
          (/\ pc[p] = "gcu_by_name" /\ pc'[p] # "gcu_by_name"
           /\ \E i \in Ids(users) :
                 /\ users[i].username = loc[p].tok.preferred_username
                 /\ users[i].keycloak_user_id # None)
          => /\ pc'[p] = "gcu_insert"
             /\ loc'[p].path = "jit"
             /\ loc'[p].user.id = 0]_vars

\* request p takes the step of get_current_user's first-login insert
InsertStep(p) == pc[p] = "gcu_insert" /\ pc'[p] = "done"

C16_StaleRowSynced ==
    [][\A p \in Procs :
          (/\ SyncStep(p)
           /\ ~HeldByAnother(loc[p].user.id, loc[p].tok)
           /\ \/ loc[p].user.last_synced_at = None
              \/ UtcNow - loc[p].user.last_synced_at[1] > SYNC_TTL
              \/ loc[p].user.username # loc[p].tok.preferred_username
              \/ /\ loc[p].tok.email # None
                 /\ loc[p].user.email # loc[p].tok.email)
          => LET id == loc[p].user.id
             IN  /\ loc'[p].status = 200
                 /\ Len(users') = Len(users)
                 /\ users'[id].username = loc[p].tok.preferred_username
                 /\ users'[id].email
                       = ClaimedEmail(loc[p].tok, users[id].email)
                 /\ users'[id].last_synced_at = <<UtcNow>>
                 /\ loc'[p].user = Obj(id, users'[id])]_vars

\* a row whose username and email agree with the token was written again
\* only because its last sync was more than one TTL ago
C16_Witness ==
    \E p \in Procs :
        /\ Resolved(p) /\ loc[p].dbWrite
        /\ loc[p].path = "by_kc"
        /\ loc[p].orig.last_synced_at = <<0>>
        /\ UtcNow > SYNC_TTL
        /\ loc[p].orig.username = loc[p].tok.preferred_username
        /\ loc[p].orig.email = loc[p].tok.email
        /\ users[loc[p].orig.id].last_synced_at = <<UtcNow>>

\* C18: in federated mode every row added to the users table, by register or
\* by the first-login insert of get_current_user, has a non-null, non-empty
\* keycloak_user_id and a non-null last_synced_at when it is created.
C18_NewFederatedRowHasIdAndSyncTime ==
    [][(Federated /\ Len(users') > Len(users)) =>
          LET row == users'[Len(users')]
          IN  /\ row.keycloak_user_id # None
              /\ Len(row.keycloak_user_id) > 0
              /\ row.last_synced_at # None
              /\ Len(row.last_synced_at) = 1]_vars

\* the table holds a row written by a federated register and a row written
\* by a first login, both with a Keycloak id and a sync time
C18_Witness ==
    /\ Len(users) = 2
    /\ Len(regLog) = 1
    /\ regLog[1].keycloak_user_id # None
    /\ \E p \in Procs :
          /\ Resolved(p) /\ loc[p].path = "jit"
          /\ loc[p].user.id = 2
          /\ users[2].keycloak_user_id = loc[p].tok.keycloak_user_id
          /\ users[2].last_synced_at # None

\* C19: in federated mode login_for_access_token answers with exactly the
\* access token the IdP issued for the password grant, reads and writes
\* nothing in the users table, and answers a refused grant with 401
\* "Incorrect username or password".
C19_FederatedLoginReturnsIdpToken ==
    /\ [](\A p \in Procs :
            (loc[p].op = "login" /\ Federated) =>
                /\ ~loc[p].dbRead /\ ~loc[p].dbWrite
                /\ pc[p] = "done" =>
                      \/ /\ loc[p].path = "granted"
                         /\ loc[p].status = 200
                         /\ loc[p].issued # None
                         /\ loc[p].access_token = loc[p].issued.access_token
                         /\ loc[p].detail = "bearer"
                      \/ /\ loc[p].path = "grant_raised"
                         /\ loc[p].status = 401
                         /\ loc[p].detail = "Incorrect username or password"
                         /\ loc[p].access_token = None)
    /\ [][\A p \in Procs :
            (loc'[p].op = "login" /\ Federated /\ pc'[p] # pc[p])
                => users' = users /\ regLog' = regLog]_vars

\* the user a federated register created logged in and got the IdP's token
C19_Witness ==
    \E p \in Procs :
        /\ pc[p] = "done" /\ loc[p].op = "login" /\ Federated
        /\ loc[p].status = 200
        /\ Len(users) > 0
        /\ loc[p].username = users[1].username
        /\ users[1].keycloak_user_id # None
        /\ loc[p].access_token = AccessToken(users[1].keycloak_user_id[1])

\* C11: for a row whose password is the empty string no candidate password
\* verifies, the empty string included: the legacy login for that username
\* mints no token, and change_password for that row never replaces the
\* stored password.
C11_EmptyHashNeverVerifies ==
    /\ [][\A p \in Procs :
            (/\ pc[p] = "login_db" /\ pc'[p] = "done"
             /\ \E i \in Ids(users) :
                   /\ users[i].username = loc[p].username
                   /\ users[i].password = <<>>)
            => /\ loc'[p].status # 200
               /\ loc'[p].jwt = NoJwt
               /\ loc'[p].access_token = None
               /\ users' = users]_vars
    /\ [][\A p \in Procs :
            (/\ loc[p].op = "change" /\ pc'[p] # pc[p]
             /\ loc[p].uid \in Ids(users)
             /\ users[loc[p].uid].password = <<>>)
            => /\ users' = users
               /\ pc'[p] \in {"done", "idle"}
               /\ loc'[p].status # 200]_vars

\* in legacy mode the table holds a row written by a federated register
\* (password ""); a login for its username with the empty password was
\* answered without a token
C11_Witness ==
    \E p \in Procs :
        /\ ~Federated
        /\ pc[p] = "done" /\ loc[p].op = "login"
        /\ loc[p].password = <<>>
        /\ loc[p].status # 200 /\ loc[p].status # 0
        /\ loc[p].jwt = NoJwt
        /\ \E i \in Ids(users) :
              /\ users[i].username = loc[p].username
              /\ users[i].password = <<>>
              /\ users[i].keycloak_user_id # None

\* C20: in legacy mode the token login mints carries the username and the id
\* of the row and expires 30 minutes after it was issued; get_current_user
\* returns the row of the token's id exactly when the token is signed with
\* SECRET_KEY, has not expired, carries sub and id, and the id is that of a
\* row; it answers 401 otherwise.
C20_LegacyTokenLifecycle ==
    /\ [][\A p \in Procs :
            (pc[p] = "login_db" /\ pc'[p] = "done" /\ loc'[p].status = 200)
            => \E i \in Ids(users) :
                  /\ users[i].username = loc[p].username
                  /\ loc'[p].jwt.sub = loc[p].username
                  /\ loc'[p].jwt.id = i
                  /\ loc'[p].jwt.exp = UtcNow + 1800
                  /\ loc'[p].jwt.key = "SECRET_KEY"]_vars
    /\ [][\A p \in Procs :
            (pc[p] = "gcu_jwt" /\ pc'[p] # "gcu_jwt") =>
                LET t == loc[p].jwt
                IN  IF /\ t.key = "SECRET_KEY" /\ UtcNow <= t.exp
                       /\ t.sub # None /\ t.id # 0
                    THEN pc'[p] = "gcu_by_id" /\ loc'[p].uid = t.id
                    ELSE pc'[p] = "done" /\ loc'[p].status = 401]_vars
    /\ [][\A p \in Procs :
            (pc[p] = "gcu_by_id" /\ pc'[p] = "done") =>
                /\ users' = users
                /\ IF loc[p].jwt.id \in Ids(users)
                   THEN /\ loc'[p].status = 200
                        /\ loc'[p].user
                              = Obj(loc[p].jwt.id, users[loc[p].jwt.id])
                   ELSE loc'[p].status = 401]_vars

\* a token as the login mints it at time 0 for a row was accepted at time 0
\* and returned that row
C20_Witness ==
    \E p \in Procs :
        /\ ~Federated /\ now = 0
        /\ pc[p] = "done" /\ loc[p].op = "resolve" /\ loc[p].status = 200
        /\ loc[p].jwt.exp = 1800
        /\ loc[p].user.id = loc[p].jwt.id
        /\ users[loc[p].jwt.id].username = loc[p].jwt.sub
        /\ users[loc[p].jwt.id].password = Hash(<<"p">>)

\* C17: in every reachable state, whatever the sequence or interleaving of
\* register, get_current_user and update_user requests, no two rows of the
\* users table have the same username, none the same email, and none the
\* same non-null keycloak_user_id.
C17_UniqueColumns ==
    \A i \in Ids(users) : \A j \in Ids(users) :
        i # j =>
            /\ users[i].username # users[j].username
            /\ users[i].email # users[j].email
            /\ users[i].keycloak_user_id = None
                  \/ users[i].keycloak_user_id # users[j].keycloak_user_id

\* an update_user found its new username or email free, a concurrent
\* get_current_user then wrote that value to another row, and the commit of
\* the update was refused
C17_Witness ==
    /\ Len(users) = 2
    /\ pc["r1"] = "done" /\ loc["r1"].op = "update"
    /\ loc["r1"].status = 500
    /\ loc["r2"].op = "resolve" /\ loc["r2"].dbWrite
    /\ \E i \in Ids(users) :
          /\ i # loc["r1"].uid
          /\ \/ users[i].username = loc["r1"].username
             \/ users[i].email = loc["r1"].email

\* the step in which the optional dependency hands over the outcome of
\* get_current_user
OptionalStepOf(p) ==
    pc[p] = "done" /\ loc[p].op = "optional" /\ loc'[p].op = "optional_done"

\* C21: get_current_user_optional returns None when no token is presented,
\* without a call to Keycloak or the database; it never ends a request with
\* 401; and when get_current_user returns a user for the presented token it
\* returns that same user.
C21_OptionalNeverRejects ==
    /\ [](\A p \in Procs :
            (pc[p] = "done" /\ loc[p].op = "optional_done") =>
                /\ loc[p].status = 200
                /\ loc[p].path = "no_token" =>
                     /\ loc[p].user = NoObj
                     /\ ~loc[p].idpCall
                     /\ ~loc[p].dbRead
                     /\ ~loc[p].dbWrite)
    /\ [][\A p \in Procs :
            OptionalStepOf(p) =>
                /\ UNCHANGED <<users, idp>>
                /\ loc[p].status = 200 =>
                     (loc[p].user # NoObj /\ loc'[p].user = loc[p].user)
                /\ loc[p].status # 200 => loc'[p].user = NoObj]_vars

C21_Witness ==
    \E p \in Procs :
        /\ pc[p] = "done"
        /\ loc[p].op = "optional_done"
        /\ loc[p].idpCall
        /\ loc[p].tok # NoToken
        /\ loc[p].user = NoObj

\* C22: a transport-level or 5xx failure of Keycloak during login or
\* get_current_user ends the request with 500, distinguishable from the 401
\* of wrong credentials or an invalid token; the call is not retried and the
\* users table is left unchanged.
C22_IdpOutageIs500 ==
    /\ [](\A p \in Procs :
            (/\ pc[p] = "done"
             /\ loc[p].op \in {"login", "resolve"}
             /\ loc[p].cause = "unavailable") => loc[p].status = 500)
    /\ [][\A p \in Procs :
            (Ends(p) /\ loc'[p].cause = "unavailable") =>
                UNCHANGED <<users, idp>>]_vars

\* whether a request named name is among calls, and the first such request
Sent(calls, name) == \E k \in 1..Len(calls) : calls[k].call = name
CallOf(calls, name) ==
    calls[CHOOSE k \in 1..Len(calls) : calls[k].call = name]
IsAdminCall(c) == c.call \in {"create", "reset-password", "get", "put"}

\* C23: create_user_in_keycloak sends its admin requests in the order
\* create, reset-password, GET, PUT, each only after the one before it
\* succeeded; the create body has enabled = true, emailVerified = false,
\* non-empty firstName and lastName and no password; the closing PUT has
\* enabled = true and requiredActions = [].
C23_ProvisionCallOrder ==
    /\ \A username \in TokenNames, first \in FirstNames \cup {None},
          last \in LastNames \cup {None} :
          LET json == CreateBody(username, <<"x">>, <<"p">>, first, last)
          IN  json.firstName # <<>> /\ json.lastName # <<>>
    /\ \A p \in Procs :
         LET calls == loc[p].calls
             admin == SelectSeq(calls, IsAdminCall)
         IN  /\ [k \in 1..Len(admin) |-> admin[k].call] =
                  SubSeq(<<"create", "reset-password", "get", "put">>,
                         1, Len(admin))
             /\ \A k \in 2..Len(admin) : admin[k - 1].ok
             /\ Sent(calls, "create") =>
                  LET json == CallOf(calls, "create").body.json
                  IN  /\ json.enabled
                      /\ ~json.emailVerified
                      /\ json.firstName # <<>>
                      /\ json.lastName # <<>>
                      /\ DOMAIN json \cap {"credentials", "password"} = {}
             /\ Sent(calls, "put") =>
                  LET json == CallOf(calls, "put").body
                  IN  json.enabled /\ json.requiredActions = <<>>

C23_Witness ==
    \E p \in Procs :
        /\ Sent(loc[p].calls, "put")
        /\ CallOf(loc[p].calls, "put").ok
        /\ CallOf(loc[p].calls, "get").body.requiredActions # <<>>
        /\ ~CallOf(loc[p].calls, "get").body.enabled

\* the step in which the call of create_user_in_keycloak ends
ProvisionStep(p) == pc[p] = "reg_idp" /\ pc'[p] # "reg_idp"

\* C24: the id create_user_in_keycloak returns is the id in the Location
\* header of the create response when there is one; otherwise it is the id
\* of the realm user whose username equals the requested one, and when the
\* username search returns several users the call fails instead of picking
\* one of them.
C24_ProvisionedIdIsExact ==
    [][\A p \in Procs :
         ProvisionStep(p) =>
            LET calls == loc'[p].calls
                returned == loc'[p].path = "idp_ok"
                kcid == loc'[p].kcid
            IN  /\ (returned /\ CallOf(calls, "create").body.location) =>
                      kcid = KcId(CallOf(calls, "create").id)
                /\ (returned /\ ~CallOf(calls, "create").body.location) =>
                      idp'[kcid[1]].username = loc[p].username
                /\ (/\ Sent(calls, "search")
                    /\ CallOf(calls, "search").ok
                    /\ Cardinality(IdpSearch(idp', loc[p].username)) > 1) =>
                      ~returned]_vars

\* two get_current_user calls that have ended, for the same token, both
\* having found the row by its Keycloak id
BothEndedByKc(p, q) ==
    /\ p # q
    /\ pc[p] = "done" /\ pc[q] = "done"
    /\ loc[p].op = "resolve" /\ loc[q].op = "resolve"
    /\ loc[p].path = "by_kc" /\ loc[q].path = "by_kc"
    /\ loc[p].tok = loc[q].tok

\* C25: two concurrent get_current_user calls for the same existing
\* keycloak_user_id with identical claims, interleaved in any order, both
\* return the user, and the row ends with the username, email and
\* keycloak_user_id a single call would have left.
C25_ConcurrentSyncConverges ==
    \A p, q \in Procs :
        BothEndedByKc(p, q) =>
            LET tok == loc[p].tok
                id == loc[p].orig.id
            IN  /\ loc[p].status = 200 /\ loc[q].status = 200
                /\ loc[p].user.id = id /\ loc[q].user.id = id
                /\ users[id].username = tok.preferred_username
                /\ users[id].email = IF tok.email # None THEN tok.email
                                     ELSE loc[p].orig.email
                /\ users[id].keycloak_user_id = tok.keycloak_user_id

\* request p takes a step of get_current_user
ResolveStepOf(p) ==
    /\ loc[p].op = "resolve"
    /\ pc[p] \in {"gcu_verify", "gcu_by_kc", "gcu_by_name", "gcu_insert",
                  "gcu_sync"}
    /\ pc'[p] # pc[p]

\* C26: get_current_user never changes a row's id, password or
\* profile_picture_url and never modifies a row other than the one it
\* returns; the only columns it writes are username, email, last_synced_at
\* and keycloak_user_id, and the only row it adds is the one it returns.
C26_ResolveWritesOnlySyncColumns ==
    [][\A p \in Procs :
         ResolveStepOf(p) =>
            /\ Len(users') \in {Len(users), Len(users) + 1}
            /\ \A id \in Ids(users) :
                 /\ users'[id].password = users[id].password
                 /\ users'[id].profile_picture_url =
                       users[id].profile_picture_url
                 /\ users'[id] # users[id] =>
                       /\ loc'[p].status = 200
                       /\ loc'[p].user = Obj(id, users'[id])
            /\ Len(users') > Len(users) =>
                 /\ loc'[p].status = 200
                 /\ loc'[p].user = Obj(Len(users'), users'[Len(users')])]_vars

C26_Witness ==
    \E p \in Procs :
        /\ Resolved(p)
        /\ loc[p].dbWrite
        /\ loc[p].orig.id # 0
        /\ loc[p].user.password # None
        /\ loc[p].user.profile_picture_url # None
        /\ loc[p].user.username # loc[p].orig.username
        /\ Len(users) = MaxUsers

\* C27: in federated mode, whenever get_current_user returns a user, the
\* row's last_synced_at is set and its age at the time of the return does
\* not exceed 86400 seconds.
C27_ReturnedRowFresh ==
    [][\A p \in Procs :
         (Ends(p) /\ loc'[p].op = "resolve" /\ loc'[p].status = 200
                  /\ Federated) =>
            LET id == loc'[p].user.id
            IN  /\ id \in Ids(users')
                /\ loc'[p].user.last_synced_at = users'[id].last_synced_at
                /\ users'[id].last_synced_at # None
                /\ now' * TickSeconds - users'[id].last_synced_at[1]
                      <= SYNC_TTL]_vars

C27_Witness ==
    \E p \in Procs :
        /\ Resolved(p)
        /\ Federated
        /\ ~loc[p].dbWrite
        /\ loc[p].user.last_synced_at # None
        /\ UtcNow - loc[p].user.last_synced_at[1] = SYNC_TTL

\* C28: in federated mode, whenever get_current_user returns a user, the
\* returned row's username is the token's preferred_username; a username
\* changed locally (update_user) is overwritten by the next successful call
\* whose token carries the old username.
C28_ReturnedUsernameIsTokens ==
    [][\A p \in Procs :
         (Ends(p) /\ loc'[p].op = "resolve" /\ loc'[p].status = 200
                  /\ Federated) =>
            LET id == loc'[p].user.id
            IN  /\ id \in Ids(users')
                /\ loc'[p].user.username = loc'[p].tok.preferred_username
                /\ users'[id].username = loc'[p].tok.preferred_username]_vars

C28_Witness ==
    \E p \in Procs :
        /\ Resolved(p)
        /\ Federated
        /\ loc[p].path = "by_kc"
        /\ loc[p].orig.username # loc[p].tok.preferred_username
        /\ loc[p].orig.last_synced_at = <<UtcNow>>
        /\ users[loc[p].user.id].username = loc[p].tok.preferred_username

\* request p, a delete_post request for a post of another user, takes a step
ForeignDeleteStep(p) ==
    /\ loc[p].op = "delete_post"
    /\ pc[p] \in {"del_get", "del_select", "del_commit"}
    /\ pc'[p] # pc[p]
    /\ PostExists(posts, loc[p].post_id)
    /\ posts[loc[p].post_id].user_id # loc[p].uid

\* C29: a DELETE /posts/{post_id} request by a user who does not own the
\* post ends with 403 and leaves the post row and the post's image object
\* unchanged: nothing is removed from the bucket before the ownership check.
C29_ForeignDeleteTouchesNothing ==
    [][\A p \in Procs :
         ForeignDeleteStep(p) =>
            /\ posts' = posts
            /\ objects' = objects
            /\ pc'[p] = "done" => loc'[p].status = 403]_vars

\* whether the likes table holds a like of the user on the post
Liked(tbl, post_id, user_id) == LikesBy(tbl, post_id, user_id) # {}

\* C30: after any sequence or interleaving of toggle_like calls there is at
\* most one likes row per (user, post); a toggle for a missing post fails
\* with PostNotFoundError and writes nothing; a toggle that finds the like
\* state it read still in place inverts it, so two toggles in a row by the
\* same user on the same post restore the like state; and the like_count
\* returned is the number of likes rows of the post after the toggle.
C30_ToggleLikeKeepsOneRow ==
    /\ [](\A j, k \in 1..Len(likes) :
            (/\ likes[j].user_id = likes[k].user_id
             /\ likes[j].post_id = likes[k].post_id) => j = k)
    /\ [][\A p \in Procs :
            LET l == loc[p]
            IN  /\ (pc[p] = "like_post" /\ pc'[p] # "like_post"
                       /\ ~PostExists(posts, l.post_id)) =>
                     /\ pc'[p] = "done"
                     /\ loc'[p].status = 404
                     /\ loc'[p].detail = "PostNotFoundError"
                     /\ ~loc'[p].dbWrite
                     /\ likes' = likes
                /\ (pc[p] = "like_commit" /\ pc'[p] = "like_count") =>
                     /\ Liked(likes', l.post_id, l.uid) = loc'[p].is_liked
                     /\ l.existing_like = Liked(likes, l.post_id, l.uid) =>
                          Liked(likes', l.post_id, l.uid) =
                              ~Liked(likes, l.post_id, l.uid)
                     /\ \A k \in 1..Len(likes) :
                          ~(likes[k].post_id = l.post_id
                              /\ likes[k].user_id = l.uid) =>
                                \E j \in 1..Len(likes') : likes'[j] = likes[k]
                /\ (pc[p] = "like_count" /\ pc'[p] = "done") =>
                     /\ loc'[p].status = 200
                     /\ loc'[p].like_count =
                          Cardinality(LikesOf(likes', l.post_id))]_vars

C30_Witness ==
    \E p, q \in Procs :
        /\ p # q
        /\ loc[p].op = "toggle_like" /\ loc[q].op = "toggle_like"
        /\ loc[p].uid = loc[q].uid /\ loc[p].post_id = loc[q].post_id
        /\ pc[p] = "done" /\ loc[p].status = 500
        /\ pc[q] = "done" /\ loc[q].status = 200 /\ loc[q].is_liked
        /\ loc[q].like_count = Len(users)

====
